---- MODULE Spec2Model ----
(***************************************************************************)
(* Resource-production simulation engine of the kingdom backend:           *)
(* core/inventory.py (the ledger), core/jobs.py (the worker pool),         *)
(* core/buildings.py (the per-building production state machine),         *)
(* core/trade.py, core/timeclock.py and core/game_state.py (the            *)
(* orchestrator).                                                          *)
(*                                                                         *)
(* Numbers.  The code computes with floats; the model computes with exact  *)
(* integers in fixed units:                                                *)
(*   - a resource amount is a multiple of 1/Scale of one resource unit,    *)
(*   - a time or cycle_progress value is a multiple of 1/PScale second,    *)
(*   - a season modifier is a percentage (100 = 1.0) and a product of the  *)
(*     two modifiers {global, tag} is a multiple of 1/MulScale.            *)
(* The tolerances 1e-9 and 1e-6 of the code are below one model unit, so   *)
(* "x + 1e-9 >= y" is "x >= y" and "x > 1e-6" is "x > 0" on model values.  *)
(*                                                                         *)
(* A Python dict is a function whose DOMAIN is the dict's key set; the     *)
(* iteration order of the dicts that are modelled follows ResSeq.          *)
(***************************************************************************)
EXTENDS Integers, Sequences, FiniteSets, TLC

\* ------------------------------------------------------------------------
\* Units

Scale == 2000 * 3
PScale == 20 * 12
MulScale == 100 * 100

Units(n) == n * Scale

Max(a, b) == IF a >= b THEN a ELSE b
Min(a, b) == IF a <= b THEN a ELSE b

\* ------------------------------------------------------------------------
\* Bounds of the model (not program constants)

\* largest amount argument of an Inventory call in SpecInv
MaxAmt == 2

\* ------------------------------------------------------------------------
\* Resources (core/resources.py); the model keeps the five the modelled
\* recipes and build costs touch.

Res == {"WOOD", "STICKS", "STONE", "PLANK", "GOLD"}
ResSeq == <<"WOOD", "STICKS", "STONE", "PLANK", "GOLD">>

EmptyDict == [r \in {} |-> 0]

\* dict.get(key, 0.0)
Get(d, r) == IF r \in DOMAIN d THEN d[r] ELSE 0

\* d with d[r] = v (key added when absent)
Put(d, r, v) == [x \in DOMAIN d \cup {r} |-> IF x = r THEN v ELSE d[x]]

\* the entries of d with a positive amount
Positive(d) == [r \in {x \in DOMAIN d : d[x] > 0} |-> d[r]]

\* ------------------------------------------------------------------------
\* Inventory (core/inventory.py)
\* An inventory is [quantities |-> dict over Res, capacities |-> dict].

NewInventory == [quantities |-> [r \in Res |-> 0], capacities |-> EmptyDict]

get_amount(inv, r) == Get(inv.quantities, r)

HasCapacity(inv, r) == r \in DOMAIN inv.capacities

get_capacity(inv, r) == inv.capacities[r]

set_capacity(inv, r, capacity) ==
    LET current == get_amount(inv, r)
    IN [quantities |-> IF current > capacity
                          THEN Put(inv.quantities, r, capacity)
                          ELSE inv.quantities,
        capacities |-> Put(inv.capacities, r, Max(0, capacity))]

set_amount(inv, r, amount) ==
    [inv EXCEPT !.quantities = Put(inv.quantities, r, Max(0, amount))]

\* has() that is satisfied by any one resource instead of by all
has_any(inv, requirements) ==
    \/ DOMAIN requirements = {}
    \/ \E r \in DOMAIN requirements : get_amount(inv, r) >= requirements[r]

has(inv, requirements) ==
    \A r \in DOMAIN requirements : get_amount(inv, r) >= requirements[r]

\* consume() that debits what is there before finding a resource short
consume_partial(inv, resources) ==
    [ok |-> has(inv, resources),
     inv |-> [inv EXCEPT !.quantities =
                [r \in DOMAIN inv.quantities |->
                   IF r \in DOMAIN resources /\ resources[r] > 0
                      /\ inv.quantities[r] >= resources[r]
                   THEN inv.quantities[r] - resources[r]
                   ELSE inv.quantities[r]]]]

\* consume: [ok |-> returned bool, inv |-> inventory afterwards]
consume(inv, resources) ==
    IF ~has(inv, resources)
    THEN [ok |-> FALSE, inv |-> inv]
    ELSE [ok |-> TRUE,
          inv |-> [inv EXCEPT !.quantities =
                     [r \in DOMAIN inv.quantities |->
                        IF r \in DOMAIN resources /\ resources[r] > 0
                        THEN Max(0, inv.quantities[r] - resources[r])
                        ELSE inv.quantities[r]]]]

\* what add() lets in of `amount` of resource r
AddAllowed(inv, r, amount) ==
    IF HasCapacity(inv, r)
    THEN Min(amount, Max(0, get_capacity(inv, r) - get_amount(inv, r)))
    ELSE amount

\* add: [inv |-> inventory afterwards, residual |-> returned dict]
add(inv, resources) ==
    LET pos == Positive(resources)
    IN [inv |-> [inv EXCEPT !.quantities =
                   [r \in DOMAIN inv.quantities |->
                      IF r \in DOMAIN pos
                      THEN Max(0, inv.quantities[r] + AddAllowed(inv, r, pos[r]))
                      ELSE inv.quantities[r]]],
        residual |-> [r \in {x \in DOMAIN pos :
                               HasCapacity(inv, x)
                               /\ pos[x] - AddAllowed(inv, x, pos[x]) > 0}
                          |-> pos[r] - AddAllowed(inv, r, pos[r])]]

\* the "Almacén lleno para <resource>" messages add() passes to the notifier:
\* one for every credited resource that ends at its capacity
add_notes(inv, resources) ==
    LET out == add(inv, resources)
        full == {i \in 1..Len(ResSeq) :
                    /\ ResSeq[i] \in DOMAIN Positive(resources)
                    /\ HasCapacity(inv, ResSeq[i])
                    /\ get_amount(out.inv, ResSeq[i]) >= get_capacity(inv, ResSeq[i])}
        RECURSIVE collect(_)
        collect(i) ==
            IF i > Len(ResSeq) THEN << >>
            ELSE (IF i \in full THEN << <<"Almacen lleno", ResSeq[i]>> >> ELSE << >>)
                    \o collect(i + 1)
    IN collect(1)


bulk_load(inv, quantities, capacities) ==
    [quantities |-> [r \in DOMAIN inv.quantities |->
                       IF r \in DOMAIN quantities THEN Max(0, quantities[r])
                       ELSE inv.quantities[r]],
     capacities |-> [r \in DOMAIN inv.capacities \cup DOMAIN capacities |->
                       IF r \in DOMAIN capacities THEN Max(0, capacities[r])
                       ELSE inv.capacities[r]]]

\* The callers in core/buildings.py use Inventory.can_add, reserve, commit
\* and rollback, which core/inventory.py does not define; they are modelled
\* from the ledger contract of the specification (section 4.1).

\* a capacity check that lets every credit through
can_add_always(inv, resources) == TRUE

\* can_add: every amount fits under the capacity of its resource
can_add(inv, resources) ==
    \A r \in DOMAIN Positive(resources) :
        HasCapacity(inv, r) =>
            get_amount(inv, r) + resources[r] <= get_capacity(inv, r)

NoToken == [ok |-> FALSE]

\* reserve: earmark (debit) the amounts and remember the amounts held at
\* reservation time; [token |-> token or NoToken, inv |-> inventory afterwards]
reserve(inv, amounts) ==
    IF has(inv, amounts)
    THEN [token |-> [ok |-> TRUE,
                     amounts |-> amounts,
                     snapshot |-> [r \in DOMAIN amounts |-> get_amount(inv, r)]],
          inv |-> consume(inv, amounts).inv]
    ELSE [token |-> NoToken, inv |-> inv]

\* commit: the debit made at reservation time stands
commit(inv, token) == inv

\* a rollback that leaves the reserved amounts debited
rollback_kept(inv, token) == inv

\* rollback: the reserved resources return to their snapshot
rollback(inv, token) ==
    [inv EXCEPT !.quantities =
       [r \in DOMAIN inv.quantities |->
          IF r \in DOMAIN token.snapshot THEN token.snapshot[r]
          ELSE inv.quantities[r]]]

\* ------------------------------------------------------------------------
\* Recipes and build costs (core/config.py), in model units

WOODCUTTER_CAMP == "woodcutter_camp"
STICK_GATHERING_TENT == "stick_gathering_tent"
LUMBER_HUT == "lumber_hut"

BTypes == {WOODCUTTER_CAMP, STICK_GATHERING_TENT, LUMBER_HUT}

BUILDING_RECIPES ==
    [t \in BTypes |->
        CASE t = WOODCUTTER_CAMP ->
                [inputs |-> EmptyDict, outputs |-> EmptyDict,
                 cycle_time |-> 1, max_workers |-> 2,
                 maintenance |-> EmptyDict,
                 per_worker_output_rate |-> [r \in {"WOOD"} |-> Scale \div 100],
                 per_worker_input_rate |->
                    [r \in {"STICKS", "STONE"} |-> (4 * Scale) \div 100]]
          [] t = STICK_GATHERING_TENT ->
                [inputs |-> EmptyDict, outputs |-> EmptyDict,
                 cycle_time |-> 1, max_workers |-> 3,
                 maintenance |-> EmptyDict,
                 per_worker_output_rate |-> [r \in {"STICKS"} |-> Scale \div 100],
                 per_worker_input_rate |-> EmptyDict]
          [] t = LUMBER_HUT ->
                [inputs |-> [r \in {"WOOD"} |-> Units(2)],
                 outputs |-> [r \in {"PLANK"} |-> Units(1)],
                 cycle_time |-> 4, max_workers |-> 2,
                 maintenance |-> [r \in {"GOLD"} |-> Scale \div 150],
                 per_worker_output_rate |-> EmptyDict,
                 per_worker_input_rate |-> EmptyDict]]

BUILD_COSTS ==
    [t \in BTypes |->
        CASE t = WOODCUTTER_CAMP ->
                [r \in {"WOOD", "GOLD"} |-> IF r = "WOOD" THEN Units(10) ELSE Units(5)]
          [] t = STICK_GATHERING_TENT -> [r \in {"GOLD"} |-> Units(1)]
          [] t = LUMBER_HUT -> EmptyDict]

\* ------------------------------------------------------------------------
\* Building (core/buildings.py)
\* A report is [status, reason, detail, consumed, produced]; None is "none".

new_report ==
    [status |-> "inactive", reason |-> "inactive", detail |-> "none",
     consumed |-> EmptyDict, produced |-> EmptyDict]

\* build_from_config + Building.__post_init__
build_from_config(t) ==
    [type_key |-> t, built |-> 0, enabled |-> TRUE, assigned_workers |-> 0,
     cycle_progress |-> 0, status |-> "pausado", production_report |-> new_report]

recipe(b) == BUILDING_RECIPES[b.type_key]

built_count(b) == Max(0, b.built)

max_workers(b) ==
    IF built_count(b) <= 0 THEN 0 ELSE recipe(b).max_workers * built_count(b)

\* cycle_time_sec in progress units
cycle_time_sec(b) == recipe(b).cycle_time * PScale

\* a rate that ignores the share of the worker slots that is staffed
ProgressGainFull(b, workers, mult, dt) ==
    IF max_workers(b) <= 0 THEN 0
    ELSE (dt * PScale * mult) \div MulScale

\* a rate that ignores the season's modifiers
ProgressGainUnseasoned(b, workers, mult, dt) ==
    IF max_workers(b) <= 0 THEN 0
    ELSE (dt * PScale * Min(max_workers(b), Max(0, workers))) \div max_workers(b)

\* effective_rate(workers, modifiers) * dt, in progress units: dt seconds at
\* rate clamp(workers / max_workers, 0, 1) * mult / MulScale
ProgressGain(b, workers, mult, dt) ==
    IF max_workers(b) <= 0 THEN 0
    ELSE (dt * PScale * Min(max_workers(b), Max(0, workers)) * mult)
            \div (max_workers(b) * MulScale)

\* effective_rate(workers, modifiers) > 0
RatePositive(b, workers, mult) ==
    max_workers(b) > 0 /\ Min(max_workers(b), Max(0, workers)) * mult > 0

\* _first_missing_resource: the first short resource, else the first
\* required one, else None
first_missing_resource(requirements, inv) ==
    LET req == {i \in 1..Len(ResSeq) :
                    ResSeq[i] \in DOMAIN requirements
                    /\ requirements[ResSeq[i]] > 0}
        short == {i \in req : get_amount(inv, ResSeq[i]) < requirements[ResSeq[i]]}
        least(S) == CHOOSE i \in S : \A j \in S : i <= j
    IN IF short # {} THEN ResSeq[least(short)]
       ELSE IF req # {} THEN ResSeq[least(req)]
       ELSE "none"

\* _combine_resources(inputs, maintenance)
combine_resources(d1, d2) ==
    LET p1 == Positive(d1)
        p2 == Positive(d2)
    IN [r \in DOMAIN p1 \cup DOMAIN p2 |-> Get(p1, r) + Get(p2, r)]

\* an accumulation that keeps the amounts of the last cycle only
accumulate_last(target, addition) == Positive(addition)

\* _accumulate(target, addition)
accumulate(target, addition) ==
    LET p == Positive(addition)
    IN [r \in DOMAIN target \cup DOMAIN p |-> Get(target, r) + Get(p, r)]

\* _restore_inventory(inventory, snapshot)
restore_inventory(inv, snapshot) ==
    [inv EXCEPT !.quantities =
       [r \in DOMAIN inv.quantities |->
          IF r \in DOMAIN snapshot THEN Max(0, snapshot[r]) ELSE inv.quantities[r]]]

\* a failed attempt that has charged one unit of gold all the same
failure_charged(inv, reason, detail) ==
    [success |-> FALSE, consumed |-> EmptyDict, produced |-> EmptyDict,
     reason |-> reason, detail |-> detail,
     inv |-> set_amount(inv, "GOLD", get_amount(inv, "GOLD") - 1),
     notes |-> << >>]

Failure(inv, reason, detail) ==
    [success |-> FALSE, consumed |-> EmptyDict, produced |-> EmptyDict,
     reason |-> reason, detail |-> detail, inv |-> inv, notes |-> << >>]

\* _attempt_cycle: one discrete cycle against the inventory
attempt_cycle(b, inv) ==
    LET maintenance == recipe(b).maintenance
        inputs == recipe(b).inputs
        outputs == recipe(b).outputs
        combined_inputs == combine_resources(inputs, maintenance)
        touched == DOMAIN combined_inputs \cup DOMAIN outputs
        before == [r \in touched |-> get_amount(inv, r)]
        consumed == consume(inv, combined_inputs)
        added == add(consumed.inv, outputs)
    IN IF DOMAIN maintenance # {} /\ ~has(inv, maintenance)
       THEN Failure(inv, "missing_input",
                    LET m == first_missing_resource(maintenance, inv)
                    IN IF m = "none" THEN "maintenance" ELSE m)
       ELSE IF DOMAIN inputs # {} /\ ~has(inv, inputs)
       THEN Failure(inv, "missing_input",
                    LET m == first_missing_resource(inputs, inv)
                    IN IF m = "none" THEN "inputs" ELSE m)
       ELSE IF DOMAIN outputs # {} /\ ~can_add(inv, outputs)
       THEN Failure(inv, "no_capacity", "none")
       ELSE IF DOMAIN combined_inputs # {} /\ ~consumed.ok
       THEN Failure(restore_inventory(inv, before), "missing_input",
                    first_missing_resource(combined_inputs, inv))
       ELSE IF DOMAIN added.residual # {}
       THEN [Failure(restore_inventory(added.inv, before), "no_capacity", "none")
                EXCEPT !.notes = add_notes(consumed.inv, outputs)]
       ELSE [success |-> TRUE, consumed |-> combined_inputs, produced |-> outputs,
             reason |-> "none", detail |-> "none", inv |-> added.inv,
             notes |-> add_notes(consumed.inv, outputs)]

\* a stall that throws the banked progress away
stall_progress_reset(b) == 0

\* a stall that keeps all the progress of the cycles still due
stall_progress_unclamped(b) == b.cycle_progress

\* self.cycle_progress = min(self.cycle_progress, self.cycle_time_sec)
stall_progress(b) == Min(b.cycle_progress, cycle_time_sec(b))

\* the while loop of Building.tick: attempt `n` cycles, stop at the first
\* failure; acc is [b, inv, consumed, produced, status, reason, detail,
\* notes]
RECURSIVE run_cycles(_, _)
run_cycles(acc, n) ==
    LET after(out) ==
          IF ~out.success
          THEN IF out.reason = "missing_input"
               THEN [acc EXCEPT
                       !.b.status = IF out.detail = "maintenance"
                                    THEN "falta_mantenimiento"
                                    ELSE "falta_insumos",
                       !.b.cycle_progress = stall_progress(acc.b),
                       !.inv = out.inv, !.notes = acc.notes \o out.notes,
                       !.status = "stalled", !.reason = "missing_input",
                       !.detail = out.detail]
               ELSE [acc EXCEPT
                       !.b.status = "capacidad_llena",
                       !.b.cycle_progress = stall_progress(acc.b),
                       !.inv = out.inv, !.notes = acc.notes \o out.notes,
                       !.status = "stalled", !.reason = "no_capacity"]
          ELSE run_cycles(
                  [acc EXCEPT
                      !.b.cycle_progress = acc.b.cycle_progress - cycle_time_sec(acc.b),
                      !.inv = out.inv, !.notes = acc.notes \o out.notes,
                      !.consumed = accumulate(acc.consumed, out.consumed),
                      !.produced = accumulate(acc.produced, out.produced),
                      !.status = "produced", !.reason = "none"],
                  n - 1)
    IN IF n <= 0 THEN acc ELSE after(attempt_cycle(acc.b, acc.inv))

\* _inactive_reason
inactive_reason(b) ==
    IF b.built = 0 THEN "inactive"
    ELSE IF ~b.enabled THEN "inactive"
    ELSE IF b.assigned_workers <= 0 \/ max_workers(b) <= 0 THEN "no_workers"
    ELSE "none"

\* an inactive status that leaves the banked progress where it was
apply_inactive_status_kept(b, reason) ==
    [b EXCEPT !.status = IF reason = "inactive" /\ b.built = 0
                         THEN "no_construido" ELSE "pausado"]

\* _apply_inactive_status
apply_inactive_status(b, reason) ==
    [b EXCEPT !.status = IF reason = "inactive" /\ b.built = 0
                         THEN "no_construido" ELSE "pausado",
              !.cycle_progress = 0]

\* a tick's result: the building with its report stored, the inventory, and
\* the messages handed to the notifier
Ticked(b, inv, report, notes) ==
    [b |-> [b EXCEPT !.production_report = report], inv |-> inv,
     report |-> report, notes |-> notes]

\* a report that forgets the totals of the tick when its status is stalled
report_cleared(status, reason, detail, consumed, produced) ==
    [status |-> status, reason |-> reason, detail |-> detail,
     consumed |-> IF status = "stalled" THEN EmptyDict ELSE Positive(consumed),
     produced |-> IF status = "stalled" THEN EmptyDict ELSE Positive(produced)]

Report(status, reason, detail, consumed, produced) ==
    [status |-> status, reason |-> reason, detail |-> detail,
     consumed |-> Positive(consumed), produced |-> Positive(produced)]

\* the discrete-cycle part of Building.tick
tick_discrete(b, dt, inv, mult) ==
    LET progressed == [b EXCEPT !.cycle_progress =
                          b.cycle_progress
                            + ProgressGain(b, b.assigned_workers, mult, dt)]
        cycles_to_attempt == progressed.cycle_progress \div cycle_time_sec(b)
        finished(done) ==
            Ticked([done.b EXCEPT !.status = IF done.status = "produced"
                                              THEN "ok" ELSE done.b.status],
                   done.inv,
                   Report(done.status, done.reason, done.detail,
                          done.consumed, done.produced),
                   done.notes)
    IN IF ~RatePositive(b, b.assigned_workers, mult)
       THEN Ticked(apply_inactive_status(b, "inactive"), inv, new_report, << >>)
       ELSE IF cycles_to_attempt <= 0
       THEN Ticked(progressed, inv, new_report, << >>)
       ELSE finished(run_cycles(
                        [b |-> progressed, inv |-> inv,
                         consumed |-> EmptyDict, produced |-> EmptyDict,
                         status |-> "inactive", reason |-> "inactive",
                         detail |-> "none", notes |-> << >>],
                        cycles_to_attempt))

\* per-worker amounts of one continuous tick: workers * rate * mult * dt
Scaled(rates, workers, mult, dt) ==
    Positive([r \in DOMAIN rates |->
                (workers * rates[r] * mult * dt) \div MulScale])

\* a limit that takes every assigned worker, whatever the stock
limit_workers_unlimited(i, rates, inv, mult, dt, acc) == acc

\* the worker count the stock of every input can sustain this tick
RECURSIVE limit_workers(_, _, _, _, _, _)
limit_workers(i, rates, inv, mult, dt, acc) ==
    IF i > Len(ResSeq) THEN acc
    ELSE LET r == ResSeq[i]
             required_per_worker ==
                IF r \in DOMAIN rates THEN (rates[r] * mult * dt) \div MulScale ELSE 0
         IN IF required_per_worker <= 0
            THEN limit_workers(i + 1, rates, inv, mult, dt, acc)
            ELSE LET possible_workers == get_amount(inv, r) \div required_per_worker
                 IN limit_workers(i + 1, rates, inv, mult, dt,
                        [effective_workers |-> Min(acc.effective_workers, possible_workers),
                         limiting_resource |->
                            IF possible_workers < acc.effective_workers
                            THEN r ELSE acc.limiting_resource])

StalledMissing(b, inv, detail) ==
    Ticked([b EXCEPT !.status = IF detail = "maintenance"
                                THEN "falta_mantenimiento" ELSE "falta_insumos",
                     !.cycle_progress = 0],
           inv,
           Report("stalled", "missing_input", detail, EmptyDict, EmptyDict),
           << >>)

StalledNoCapacity(b, inv, notes) ==
    Ticked([b EXCEPT !.status = "capacidad_llena", !.cycle_progress = 0],
           inv,
           Report("stalled", "no_capacity", "none", EmptyDict, EmptyDict),
           notes)

\* _tick_continuous
tick_continuous(b, dt, inv, mult) ==
    LET workers == Max(0, b.assigned_workers)
        per_worker_outputs == recipe(b).per_worker_output_rate
        per_worker_inputs == recipe(b).per_worker_input_rate
        credited(detail, consumption, produced_amounts, reservation, reserved,
                 committed, added) ==
            IF DOMAIN consumption # {} /\ ~reservation.token.ok
            THEN StalledMissing(b, inv, detail)
            ELSE IF DOMAIN produced_amounts # {} /\ ~can_add(reserved, produced_amounts)
            THEN StalledNoCapacity(b,
                     IF DOMAIN consumption # {}
                     THEN rollback(reserved, reservation.token) ELSE inv,
                     << >>)
            ELSE IF DOMAIN added.residual # {}
            THEN StalledNoCapacity(b,
                     restore_inventory(added.inv,
                         [r \in DOMAIN consumption |->
                             get_amount(added.inv, r) + consumption[r]]),
                     add_notes(committed, produced_amounts))
            ELSE Ticked([b EXCEPT !.status = "ok", !.cycle_progress = 0],
                        added.inv,
                        Report("produced", "none", "none", consumption, produced_amounts),
                        add_notes(committed, produced_amounts))
        crediting(detail, consumption, produced_amounts, reservation, reserved,
                  committed) ==
            credited(detail, consumption, produced_amounts, reservation,
                     reserved, committed, add(committed, produced_amounts))
        committing(detail, consumption, produced_amounts, reservation, reserved) ==
            crediting(detail, consumption, produced_amounts, reservation, reserved,
                      IF DOMAIN consumption # {}
                      THEN commit(reserved, reservation.token) ELSE inv)
        reserving(detail, consumption, produced_amounts, reservation) ==
            committing(detail, consumption, produced_amounts, reservation,
                       IF DOMAIN consumption # {} THEN reservation.inv ELSE inv)
        scaled(detail, consumption, produced_amounts) ==
            reserving(detail, consumption, produced_amounts, reserve(inv, consumption))
        limited(lim) ==
            IF lim.effective_workers <= 0
            THEN StalledMissing(b, inv,
                    IF lim.limiting_resource = "none" THEN "inputs"
                    ELSE lim.limiting_resource)
            ELSE scaled(IF lim.limiting_resource = "none" THEN "inputs"
                        ELSE lim.limiting_resource,
                        Scaled(per_worker_inputs, lim.effective_workers, mult, dt),
                        Scaled(per_worker_outputs, lim.effective_workers, mult, dt))
    IN IF mult <= 0 \/ workers <= 0 \/ DOMAIN per_worker_outputs = {}
       THEN Ticked(apply_inactive_status(b, "inactive"), inv, new_report, << >>)
       ELSE limited(limit_workers(1, per_worker_inputs, inv, mult, dt,
                        [effective_workers |-> workers, limiting_resource |-> "none"]))

\* Building.tick(dt, inventory, notify, modifiers); dt in seconds, mult the
\* product of the modifiers in 1/MulScale
BuildingTick(b, dt, inv, mult) ==
    IF inactive_reason(b) # "none"
    THEN Ticked(apply_inactive_status(b, inactive_reason(b)), inv,
                [new_report EXCEPT !.reason = inactive_reason(b)], << >>)
    ELSE IF DOMAIN recipe(b).per_worker_output_rate # {}
    THEN tick_continuous(b, dt, inv, mult)
    ELSE tick_discrete(b, dt, inv, mult)

\* ------------------------------------------------------------------------
\* WorkerPool (core/jobs.py)

POPULATION_INITIAL == 4

RECURSIVE SumAssigned(_, _)
SumAssigned(bs, ids) ==
    IF ids = {} THEN 0
    ELSE LET id == CHOOSE x \in ids : TRUE
         IN Max(0, bs[id].assigned_workers) + SumAssigned(bs, ids \ {id})

\* WorkerPool.available_workers over the registered buildings
available_workers(bs, total_workers) ==
    Max(0, total_workers - SumAssigned(bs, DOMAIN bs))

\* an assignment that skips the checks against the pool and the building
assign_workers_unchecked(b, number, available) ==
    [ok |-> TRUE, applied |-> Max(0, number),
     b |-> [b EXCEPT !.assigned_workers = b.assigned_workers + Max(0, number)]]

\* assign_workers that silently applies what fits, nothing included
assign_workers_clamped(b, number, available) ==
    LET fits == Max(0, Min(number, Min(available,
                                       max_workers(b) - b.assigned_workers)))
    IN [ok |-> TRUE, applied |-> fits,
        b |-> [b EXCEPT !.assigned_workers = b.assigned_workers + fits]]

\* WorkerPool.assign_workers: all of `number` or WorkerAllocationError
assign_workers(b, number, available) ==
    LET room == max_workers(b) - b.assigned_workers
    IN IF number <= 0 THEN [ok |-> TRUE, applied |-> 0, b |-> b]
       ELSE IF room <= 0 \/ available <= 0 \/ number > available \/ number > room
       THEN [ok |-> FALSE, applied |-> 0, b |-> b]
       ELSE [ok |-> TRUE, applied |-> number,
             b |-> [b EXCEPT !.assigned_workers = b.assigned_workers + number]]

\* WorkerPool.unassign_workers
unassign_workers(b, number) ==
    LET removed == Min(number, Max(0, b.assigned_workers))
    IN IF number <= 0 \/ removed <= 0 THEN [applied |-> 0, b |-> b]
       ELSE [applied |-> 0 - removed,
             b |-> [b EXCEPT !.assigned_workers =
                                Max(0, b.assigned_workers - removed)]]

\* WorkerPool.set_assignment
set_assignment(b, number) ==
    [b EXCEPT !.assigned_workers = Max(0, Min(number, max_workers(b)))]

\* ------------------------------------------------------------------------
\* SeasonClock (core/timeclock.py)

SEASON_NAMES == <<"Spring", "Summer", "Autumn", "Winter">>
season_duration == 180

NewSeasonClock == [current_index |-> 0, tick_within_season |-> 0]

\* the wrap of update done once instead of while it applies
roll_seasons_once(c) ==
    IF c.tick_within_season >= season_duration
    THEN [current_index |-> (c.current_index + 1) % Len(SEASON_NAMES),
          tick_within_season |-> c.tick_within_season - season_duration]
    ELSE c

\* SeasonClock.update(dt), dt in whole seconds
RECURSIVE roll_seasons(_)
roll_seasons(c) ==
    IF c.tick_within_season >= season_duration
    THEN roll_seasons([current_index |-> (c.current_index + 1) % Len(SEASON_NAMES),
                       tick_within_season |-> c.tick_within_season - season_duration])
    ELSE c

season_update(c, dt) ==
    IF dt <= 0 THEN c
    ELSE roll_seasons([c EXCEPT !.tick_within_season = c.tick_within_season + dt])

get_current_season(c) == SEASON_NAMES[c.current_index + 1]

\* SEASON_MODIFIERS for the modelled building types, in 1/MulScale
SEASON_MODIFIERS(season, tag) ==
    IF tag = "global" THEN MulScale
    ELSE IF season = "Winter" /\ tag \in {WOODCUTTER_CAMP, LUMBER_HUT}
    THEN (11 * MulScale) \div 10
    ELSE MulScale

\* the product of SeasonClock.get_modifiers(building_tag), in 1/MulScale
get_production_modifiers(c, tag) ==
    (SEASON_MODIFIERS(get_current_season(c), "global")
        * SEASON_MODIFIERS(get_current_season(c), tag)) \div MulScale

\* ------------------------------------------------------------------------
\* Notification queue (GameState.notifications, a deque with a maximum
\* length); a message is a tuple of its text and what it names

QueueLimit == 2

Range(q) == {q[i] : i \in 1..Len(q)}

\* deque.append: the oldest message falls out of a full queue
add_notification(q, m) ==
    IF Len(q) >= QueueLimit THEN Tail(q) \o <<m>> ELSE q \o <<m>>

RECURSIVE add_notifications(_, _)
add_notifications(q, ms) ==
    IF ms = << >> THEN q
    ELSE add_notifications(add_notification(q, Head(ms)), Tail(ms))

\* _enqueue_unique_notification
enqueue_unique_notification(q, m) ==
    IF m \in Range(q) THEN q ELSE add_notification(q, m)

\* _remove_notification_message: deque.remove drops the first occurrence
remove_notification_message(q, m) ==
    IF m \notin Range(q) THEN q
    ELSE LET i == CHOOSE k \in 1..Len(q) : q[k] = m /\ \A j \in 1..(k - 1) : q[j] # m
         IN SubSeq(q, 1, i - 1) \o SubSeq(q, i + 1, Len(q))

\* ------------------------------------------------------------------------
\* Trade (core/trade.py); a channel is [mode, rate_per_min], the rate in
\* whole units per minute

\* TRADE_DEFAULTS: the channels in declaration order and twice their prices
TradeSeq == <<"WOOD", "STICKS", "STONE", "PLANK", "GOLD">>

PriceTwice(r) ==
    CASE r = "WOOD" -> 2
      [] r = "STICKS" -> 1
      [] r = "STONE" -> 3
      [] r = "PLANK" -> 6
      [] r = "GOLD" -> 2

TRADE_DEFAULTS == [r \in Res |-> [mode |-> "pause", rate_per_min |-> 0]]

One(r, amount) == [x \in {r} |-> amount]

\* _handle_import that keeps the gold of the part the ledger refused
handle_import_unrefunded(r, ch, wanted, inv) ==
    LET available_gold == get_amount(inv, "GOLD")
        short == (wanted * PriceTwice(r)) \div 2 > available_gold
        possible_amount == (available_gold * 2) \div PriceTwice(r)
        amount == IF short THEN possible_amount ELSE wanted
        cost == (amount * PriceTwice(r)) \div 2
        settled(added, leftover) ==
            [ch |-> IF leftover > 0 /\ leftover >= amount
                    THEN [ch EXCEPT !.mode = "pause"] ELSE ch,
             inv |-> added.inv,
             notes |-> << >>]
        paying(paid) ==
            (LET added_to(added) == settled(added, Get(added.residual, r))
             IN added_to(add(paid, One(r, amount))))
    IN IF short /\ possible_amount <= 0
       THEN [ch |-> [ch EXCEPT !.mode = "pause"], inv |-> inv,
             notes |-> << <<"pausado: falta GOLD", r>> >>]
       ELSE paying(IF cost > 0 THEN consume(inv, One("GOLD", cost)).inv ELSE inv)

\* _handle_import that orders the whole amount whatever gold there is
handle_import_unreduced(r, ch, wanted, inv) ==
    LET cost == (wanted * PriceTwice(r)) \div 2
        settled(added, leftover, refund) ==
            [ch |-> IF leftover > 0 /\ leftover >= wanted
                    THEN [ch EXCEPT !.mode = "pause"] ELSE ch,
             inv |-> IF leftover > 0 /\ refund > 0
                     THEN add(added.inv, One("GOLD", refund)).inv ELSE added.inv,
             notes |-> << >>]
        paying(paid) ==
            (LET added_to(added) ==
                    settled(added, Get(added.residual, r),
                            (Get(added.residual, r) * PriceTwice(r)) \div 2)
             IN added_to(add(paid, One(r, wanted))))
    IN paying(IF cost > 0 THEN consume(inv, One("GOLD", cost)).inv ELSE inv)

\* TradeChannel._handle_import
handle_import(r, ch, wanted, inv) ==
    LET available_gold == get_amount(inv, "GOLD")
        short == (wanted * PriceTwice(r)) \div 2 > available_gold
        possible_amount == (available_gold * 2) \div PriceTwice(r)
        amount == IF short THEN possible_amount ELSE wanted
        cost == (amount * PriceTwice(r)) \div 2
        settled(paid, added, leftover, refund) ==
            [ch |-> IF leftover > 0 /\ leftover >= amount
                    THEN [ch EXCEPT !.mode = "pause"] ELSE ch,
             inv |-> IF leftover > 0 /\ refund > 0
                     THEN add(added.inv, One("GOLD", refund)).inv ELSE added.inv,
             notes |->
                 (IF short THEN << <<"importacion reducida por falta de GOLD", r>> >>
                  ELSE << >>)
                 \o add_notes(paid, One(r, amount))
                 \o (IF leftover > 0 /\ refund > 0
                     THEN add_notes(added.inv, One("GOLD", refund)) ELSE << >>)
                 \o (IF leftover <= 0 THEN << >>
                     ELSE IF leftover >= amount
                     THEN << <<"pausado: almacen sin espacio", r>> >>
                     ELSE << <<"importacion limitada por capacidad", r>> >>)]
        added_to(paid, added) ==
            settled(paid, added, Get(added.residual, r),
                    (Get(added.residual, r) * PriceTwice(r)) \div 2)
        paying(paid) == added_to(paid, add(paid, One(r, amount)))
    IN IF short /\ possible_amount <= 0
       THEN [ch |-> [ch EXCEPT !.mode = "pause"], inv |-> inv,
             notes |-> << <<"pausado: falta GOLD", r>> >>]
       ELSE paying(IF cost > 0 THEN consume(inv, One("GOLD", cost)).inv ELSE inv)

\* _handle_export that leaves the channel open on an empty stock
handle_export_unpaused(r, ch, wanted, inv) ==
    LET available == get_amount(inv, r)
        actual == Min(wanted, available)
        gold_gain == (actual * PriceTwice(r)) \div 2
        selling(sold) ==
            [ch |-> ch, inv |-> add(sold, One("GOLD", gold_gain)).inv,
             notes |-> << >>]
    IN IF available <= 0
       THEN [ch |-> ch, inv |-> inv, notes |-> << >>]
       ELSE selling(consume(inv, One(r, actual)).inv)

\* TradeChannel._handle_export
handle_export(r, ch, wanted, inv) ==
    LET available == get_amount(inv, r)
        actual == Min(wanted, available)
        gold_gain == (actual * PriceTwice(r)) \div 2
        selling(sold) ==
            [ch |-> ch, inv |-> add(sold, One("GOLD", gold_gain)).inv,
             notes |-> add_notes(sold, One("GOLD", gold_gain))
                        \o (IF actual < wanted
                            THEN << <<"exportacion limitada por bajo stock", r>> >>
                            ELSE << >>)]
    IN IF available <= 0
       THEN [ch |-> [ch EXCEPT !.mode = "pause"], inv |-> inv,
             notes |-> << <<"pausado: sin stock", r>> >>]
       ELSE selling(consume(inv, One(r, actual)).inv)

\* TradeChannel.tick
channel_tick(r, ch, dt, inv) ==
    LET amount == (ch.rate_per_min * Scale * dt) \div 60
    IN IF ch.mode = "pause" \/ amount <= 0
       THEN [ch |-> ch, inv |-> inv, notes |-> << >>]
       ELSE IF ch.mode = "import" THEN handle_import(r, ch, amount, inv)
       ELSE handle_export(r, ch, amount, inv)

\* TradeManager.tick: every channel in turn; acc is [channels, inv, notes]
RECURSIVE trade_tick(_, _, _)
trade_tick(i, dt, acc) ==
    IF i > Len(TradeSeq) THEN acc
    ELSE LET r == TradeSeq[i]
             traded(out) ==
                [channels |-> [acc.channels EXCEPT ![r] = out.ch],
                 inv |-> out.inv,
                 notes |-> acc.notes \o out.notes]
         IN trade_tick(i + 1, dt,
                traded(channel_tick(r, acc.channels[r], dt, acc.inv)))

\* ------------------------------------------------------------------------
\* GameState (core/game_state.py)

CAPACIDADES ==
    [r \in Res |->
        CASE r = "WOOD" -> Units(500)
          [] r = "PLANK" -> Units(300)
          [] r = "STONE" -> Units(500)
          [] r = "GOLD" -> Units(1000)
          [] r = "STICKS" -> Units(200)]

STARTING_RESOURCES == [r \in {"GOLD"} |-> Units(10)]

\* _initialise_inventory
RECURSIVE initialise_inventory(_, _)
initialise_inventory(inv, i) ==
    IF i > Len(ResSeq) THEN inv
    ELSE initialise_inventory(
            set_capacity(set_amount(inv, ResSeq[i], Get(STARTING_RESOURCES, ResSeq[i])),
                         ResSeq[i], CAPACIDADES[ResSeq[i]]),
            i + 1)

NewWoodState ==
    [wood |-> 0, woodcutter_camps_built |-> 0, workers_assigned_woodcutter |-> 0,
     max_workers_woodcutter |-> 0, wood_max_capacity |-> 0,
     wood_production_per_second |-> 0]

\* _recompute_wood_state_locked over [buildings, inv, wood]; `changed` is
\* its return value
recompute_wood_state(g) ==
    LET exists == WOODCUTTER_CAMP \in DOMAIN g.buildings
        woodcutter == g.buildings[WOODCUTTER_CAMP]
        built == IF exists THEN Max(0, built_count(woodcutter)) ELSE 0
        max_w == built * 2
        raw == IF exists THEN Max(0, woodcutter.assigned_workers) ELSE 0
        assigned == IF built = 0 THEN 0 ELSE Min(raw, max_w)
        bs == IF exists /\ (raw > max_w
                            \/ (built = 0 /\ woodcutter.assigned_workers # 0))
              THEN [g.buildings EXCEPT ![WOODCUTTER_CAMP].assigned_workers = assigned]
              ELSE g.buildings
        capacity == Units(50) * built
        current_capacity == IF HasCapacity(g.inv, "WOOD")
                            THEN get_capacity(g.inv, "WOOD") ELSE 0
        cached(amount) ==
            [wood |-> amount, woodcutter_camps_built |-> built,
             workers_assigned_woodcutter |-> assigned,
             max_workers_woodcutter |-> max_w,
             wood_max_capacity |-> capacity,
             wood_production_per_second |-> IF built > 0
                                            THEN assigned * (Scale \div 10)
                                            ELSE 0]
        result(inv, state) ==
            [buildings |-> bs, inv |-> inv, wood |-> state, changed |-> state # g.wood]
        emptied(inv, amount) ==
            result(IF built = 0 /\ amount > 0 THEN set_amount(inv, "WOOD", 0) ELSE inv,
                   cached(IF built = 0 THEN 0 ELSE amount))
        clamped(inv, amount) ==
            emptied(IF amount > capacity THEN set_amount(inv, "WOOD", capacity) ELSE inv,
                    Min(amount, capacity))
        capped(inv) == clamped(inv, Max(0, get_amount(inv, "WOOD")))
    IN capped(IF current_capacity # capacity
              THEN set_capacity(g.inv, "WOOD", capacity) ELSE g.inv)

\* a wood tick that credits the whole potential, whatever the camps can hold
apply_wood_tick_uncapped(g, seconds) ==
    LET produce(r, potential, new_amount) ==
          IF seconds <= 0
             \/ r.wood.wood_production_per_second <= 0
             \/ r.wood.wood_max_capacity <= 0
             \/ potential <= 0
             \/ new_amount = r.wood.wood
          THEN [buildings |-> r.buildings, inv |-> r.inv, wood |-> r.wood,
                bump |-> r.changed, produced |-> 0]
          ELSE [buildings |-> r.buildings,
                inv |-> set_amount(r.inv, "WOOD", new_amount),
                wood |-> [r.wood EXCEPT !.wood = new_amount],
                bump |-> TRUE,
                produced |-> Max(0, new_amount - r.wood.wood)]
        recomputed(r) ==
          produce(r, r.wood.wood_production_per_second * seconds,
                  Max(0, r.wood.wood + r.wood.wood_production_per_second * seconds))
    IN recomputed(recompute_wood_state(g))

\* _apply_wood_tick: `bump` tells whether the state version is raised
apply_wood_tick(g, seconds) ==
    LET produce(r, potential, new_amount) ==
          IF seconds <= 0
             \/ r.wood.wood_production_per_second <= 0
             \/ r.wood.wood_max_capacity <= 0
             \/ potential <= 0
             \/ new_amount = r.wood.wood
          THEN [buildings |-> r.buildings, inv |-> r.inv, wood |-> r.wood,
                bump |-> r.changed, produced |-> 0]
          ELSE [buildings |-> r.buildings,
                inv |-> set_amount(r.inv, "WOOD", new_amount),
                wood |-> [r.wood EXCEPT !.wood = new_amount],
                bump |-> TRUE,
                produced |-> Max(0, new_amount - r.wood.wood)]
        recomputed(r) ==
          produce(r, r.wood.wood_production_per_second * seconds,
                  Max(0, Min(r.wood.wood + r.wood.wood_production_per_second * seconds,
                             r.wood.wood_max_capacity)))
    IN recomputed(recompute_wood_state(g))

\* the woodcutter's report and status at the end of GameState.tick
wood_report(wood, produced) ==
    LET status ==
          IF wood.woodcutter_camps_built <= 0 THEN <<"inactive", "inactive">>
          ELSE IF wood.workers_assigned_woodcutter <= 0 THEN <<"inactive", "no_workers">>
          ELSE IF wood.wood_max_capacity > 0 /\ wood.wood >= wood.wood_max_capacity
          THEN <<"stalled", "no_capacity">>
          ELSE IF produced > 0 THEN <<"produced", "none">>
          ELSE <<"inactive", "inactive">>
    IN [status |-> status[1], reason |-> status[2], detail |-> "none",
        consumed |-> EmptyDict,
        produced |-> IF produced > 0 THEN One("wood", produced) ELSE EmptyDict]

wood_status(wood, report) ==
    IF wood.woodcutter_camps_built <= 0 THEN "no_construido"
    ELSE IF report.status = "produced" THEN "ok"
    ELSE IF report.status = "stalled" THEN "capacidad_llena"
    ELSE "pausado"

\* _resolve_missing_resource
resolve_missing_resource(b, detail, inv) ==
    IF detail \in Res THEN detail
    ELSE LET short(req) == {i \in 1..Len(ResSeq) :
                                /\ ResSeq[i] \in DOMAIN req
                                /\ req[ResSeq[i]] > 0
                                /\ get_amount(inv, ResSeq[i]) < req[ResSeq[i]]}
             least(S) == CHOOSE i \in S : \A j \in S : i <= j
         IN IF short(recipe(b).inputs) # {}
            THEN ResSeq[least(short(recipe(b).inputs))]
            ELSE IF short(recipe(b).maintenance) # {}
            THEN ResSeq[least(short(recipe(b).maintenance))]
            ELSE "none"

\* _format_missing_notification
format_missing_notification(b, resource, channels) ==
    <<"parado: falta", b.type_key, resource,
      IF channels[resource].mode = "import" THEN "(resoluble via import)" ELSE "">>

\* _update_missing_input_notifications over [notifications, active, seen]:
\* the queue, _active_missing_notifications and this tick's active_missing
update_missing_input_notifications(b, report, inv, channels, n) ==
    LET resource == resolve_missing_resource(b, report.detail, inv)
        key == <<b.type_key, resource>>
        message == format_missing_notification(b, resource, channels)
        known == key \in DOMAIN n.active
    IN IF report.status # "stalled" \/ report.reason # "missing_input" THEN n
       ELSE IF resource = "none" THEN n
       ELSE IF known /\ n.active[key] = message
       THEN [n EXCEPT !.seen = n.seen \cup {key}]
       ELSE [notifications |->
                enqueue_unique_notification(
                    IF known
                    THEN remove_notification_message(n.notifications, n.active[key])
                    ELSE n.notifications,
                    message),
             active |-> Put(n.active, key, message),
             seen |-> n.seen \cup {key}]

\* _cleanup_missing_notifications
RECURSIVE remove_all(_, _)
remove_all(q, ms) ==
    IF ms = {} THEN q
    ELSE LET m == CHOOSE x \in ms : TRUE
         IN remove_all(remove_notification_message(q, m), ms \ {m})

\* _cleanup_missing_notifications that forgets the keys and leaves their
\* messages queued
cleanup_missing_keys_only(n) ==
    [notifications |-> n.notifications,
     active |-> [k \in DOMAIN n.active \cap n.seen |-> n.active[k]],
     seen |-> n.seen]

cleanup_missing_notifications(n) ==
    LET gone == DOMAIN n.active \ n.seen
    IN [notifications |-> remove_all(n.notifications, {n.active[k] : k \in gone}),
        active |-> [k \in DOMAIN n.active \cap n.seen |-> n.active[k]],
        seen |-> n.seen]

\* the loop of GameState.tick over the buildings in dict order, the
\* woodcutter skipped; acc is [buildings, inv, reports, n]
RECURSIVE tick_buildings(_, _, _, _, _, _)
tick_buildings(i, ids, dt, clock, channels, acc) ==
    IF i > Len(ids) THEN acc
    ELSE IF ids[i] = WOODCUTTER_CAMP
    THEN tick_buildings(i + 1, ids, dt, clock, channels, acc)
    ELSE LET id == ids[i]
             ticked(out) ==
                [buildings |-> [acc.buildings EXCEPT ![id] = out.b],
                 inv |-> out.inv,
                 reports |-> Put(acc.reports, id, out.report),
                 n |-> update_missing_input_notifications(
                            out.b, out.report, out.inv, channels,
                            [acc.n EXCEPT !.notifications =
                                add_notifications(acc.n.notifications, out.notes)])]
         IN tick_buildings(i + 1, ids, dt, clock, channels,
                ticked(BuildingTick(acc.buildings[id], dt, acc.inv,
                                    get_production_modifiers(clock, id))))

\* a tick that runs the building loop first, on the stock and in the season
\* it starts from, and only then advances the clock and trades
game_tick_buildings_first(g, dt) ==
    LET seconds == Max(0, dt)
        has_woodcutter == WOODCUTTER_CAMP \in DOMAIN g.buildings
        result(traded, ticked, cleaned, wooded, report) ==
            [buildings |->
                IF has_woodcutter
                THEN [wooded.buildings EXCEPT
                        ![WOODCUTTER_CAMP].production_report = report,
                        ![WOODCUTTER_CAMP].status = wood_status(wooded.wood, report)]
                ELSE wooded.buildings,
             ids |-> g.ids,
             inv |-> wooded.inv,
             wood |-> wooded.wood,
             clock |-> season_update(g.clock, seconds),
             channels |-> traded.channels,
             version |-> IF wooded.bump THEN g.version + 1 ELSE g.version,
             ticks |-> g.ticks + 1,
             reports |-> IF has_woodcutter
                         THEN Put(ticked.reports, WOODCUTTER_CAMP, report)
                         ELSE ticked.reports,
             notifications |-> add_notifications(cleaned.notifications, traded.notes),
             active |-> cleaned.active]
        wooded_in(traded, ticked, cleaned, wooded) ==
            result(traded, ticked, cleaned, wooded,
                   wood_report(wooded.wood, wooded.produced))
        traded_in(ticked, traded) ==
            wooded_in(traded, ticked,
                      cleanup_missing_notifications(ticked.n),
                      apply_wood_tick(
                          [buildings |-> ticked.buildings, inv |-> traded.inv,
                           wood |-> g.wood], seconds))
        ticked_in(ticked) ==
            traded_in(ticked,
                      trade_tick(1, seconds,
                          [channels |-> g.channels, inv |-> ticked.inv,
                           notes |-> << >>]))
    IN ticked_in(tick_buildings(1, g.ids, seconds, g.clock, g.channels,
                     [buildings |-> g.buildings, inv |-> g.inv,
                      reports |-> EmptyDict,
                      n |-> [notifications |-> g.notifications,
                             active |-> g.active, seen |-> {}]]))

\* GameState.tick over the whole state g = [buildings, ids, inv, wood,
\* clock, channels, version, ticks, reports, notifications, active]
game_tick(g, dt) ==
    LET seconds == Max(0, dt)
        has_woodcutter == WOODCUTTER_CAMP \in DOMAIN g.buildings
        result(clock, traded, ticked, cleaned, wooded, report) ==
            [buildings |->
                IF has_woodcutter
                THEN [wooded.buildings EXCEPT
                        ![WOODCUTTER_CAMP].production_report = report,
                        ![WOODCUTTER_CAMP].status = wood_status(wooded.wood, report)]
                ELSE wooded.buildings,
             ids |-> g.ids,
             inv |-> wooded.inv,
             wood |-> wooded.wood,
             clock |-> clock,
             channels |-> traded.channels,
             version |-> IF wooded.bump THEN g.version + 1 ELSE g.version,
             ticks |-> g.ticks + 1,
             reports |-> IF has_woodcutter
                         THEN Put(ticked.reports, WOODCUTTER_CAMP, report)
                         ELSE ticked.reports,
             notifications |-> cleaned.notifications,
             active |-> cleaned.active]
        wooded_in(clock, traded, ticked, cleaned, wooded) ==
            result(clock, traded, ticked, cleaned, wooded,
                   wood_report(wooded.wood, wooded.produced))
        ticked_in(clock, traded, ticked) ==
            wooded_in(clock, traded, ticked,
                      cleanup_missing_notifications(ticked.n),
                      apply_wood_tick(
                          [buildings |-> ticked.buildings, inv |-> ticked.inv,
                           wood |-> g.wood], seconds))
        traded_in(clock, traded) ==
            ticked_in(clock, traded,
                      tick_buildings(1, g.ids, seconds, clock, traded.channels,
                          [buildings |-> g.buildings, inv |-> traded.inv,
                           reports |-> EmptyDict,
                           n |-> [notifications |->
                                      add_notifications(g.notifications, traded.notes),
                                  active |-> g.active, seen |-> {}]]))
    IN traded_in(season_update(g.clock, seconds),
                 trade_tick(1, seconds,
                     [channels |-> g.channels, inv |-> g.inv, notes |-> << >>]))

\* ------------------------------------------------------------------------
\* State

VARIABLES
    inventory,     \* the Inventory under test / GameState.inventory
    reservation,   \* the outstanding reservation token, NoToken when none
    building,      \* the Building ticked on its own against `inventory`
    buildings,     \* GameState.buildings: public id -> Building
    building_ids,  \* the keys of GameState.buildings in insertion order
    wood_state,    \* GameState.wood, woodcutter_camps_built, ... (cached)
    season_clock,  \* GameState.season_clock
    channels,      \* GameState.trade_manager.channels
    state_version, \* GameState._state_version
    tick_count,    \* GameState._tick_count
    last_production_reports,        \* GameState.last_production_reports
    notifications,                  \* GameState.notifications
    active_missing_notifications,   \* GameState._active_missing_notifications
    threads,       \* GameState._lock (its owner) and where the tick driver
                   \* and the request handler are in their calls
    save_file,     \* the JSON document persistence.save_game wrote last
    graph_cache,   \* production_tree._CACHE: the version and payload stored
    last           \* the last operation: its name, arguments, the state
                   \* before it (pre, b), what it returned (ret) and, for
                   \* a commit or rollback, the inventory at reservation
                   \* time (origin)

\* the fields of a GameState other than its inventory
gameVars == <<buildings, building_ids, wood_state, season_clock, channels,
              state_version, tick_count, last_production_reports,
              notifications, active_missing_notifications>>

vars == <<inventory, reservation, building, gameVars, threads, save_file,
          graph_cache, last>>

\* the variables an Inventory on its own leaves alone
notInv == <<building, gameVars, threads, save_file, graph_cache>>
\* the variables a Building ticked on its own leaves alone
notBld == <<reservation, gameVars, threads, save_file, graph_cache>>
\* the variables a GameState leaves alone
notGame == <<reservation, building, threads, save_file, graph_cache>>

\* no document written yet
NoSave == [version |-> 0]

\* the lock free, both threads outside any call
Idle == [op |-> "idle"]
NoThreads == [lock |-> "none", tick |-> Idle, request |-> Idle]

\* ProductionTreeCache(): no entry stored
NoGraph == [version |-> 0 - 1, payload |-> << >>]

\* no GameState: the value of its fields in SpecInv and SpecBld
NoGame ==
    /\ threads = NoThreads
    /\ save_file = NoSave
    /\ graph_cache = NoGraph
    /\ buildings = EmptyDict
    /\ building_ids = << >>
    /\ wood_state = NewWoodState
    /\ season_clock = NewSeasonClock
    /\ channels = TRADE_DEFAULTS
    /\ state_version = 0
    /\ tick_count = 0
    /\ last_production_reports = EmptyDict
    /\ notifications = << >>
    /\ active_missing_notifications = EmptyDict

NoOp == [op |-> "init"]

\* ------------------------------------------------------------------------
\* SpecInv: an Inventory driven through its public methods

InvRes == {"WOOD", "GOLD"}
\* arguments: amounts of a requirement dict, amounts that may be zero, and
\* amounts that may be negative; add() may build a stock up to MaxQty
ReqArgs == 1..MaxAmt
AmtArgs == 0..MaxAmt
AnyArgs == (0 - 1)..MaxAmt
MaxQty == MaxAmt + 1

\* the dicts over InvRes with amounts in S
Dicts(S) == UNION {[D -> S] : D \in SUBSET InvRes}
\* the dicts whose only possible key is r
DictsOn(r, S) == UNION {[D -> S] : D \in {{}, {r}}}

InvInit ==
    /\ inventory = NewInventory
    /\ reservation = NoToken
    /\ building = build_from_config(LUMBER_HUT)
    /\ NoGame
    /\ last = NoOp

NoReservation == reservation.ok = FALSE

InvSetCapacity ==
    /\ NoReservation
    /\ \E r \in InvRes, c \in AnyArgs :
        /\ inventory' = set_capacity(inventory, r, c)
        /\ last' = [op |-> "set_capacity", res |-> r, arg |-> c, pre |-> inventory]
    /\ UNCHANGED <<reservation, notInv>>

InvSetAmount ==
    /\ NoReservation
    /\ \E r \in InvRes, a \in AnyArgs :
        /\ inventory' = set_amount(inventory, r, a)
        /\ last' = [op |-> "set_amount", res |-> r, arg |-> a, pre |-> inventory]
    /\ UNCHANGED <<reservation, notInv>>

InvConsume ==
    /\ NoReservation
    /\ \E req \in Dicts(ReqArgs) :
        LET out == consume(inventory, req)
        IN /\ inventory' = out.inv
           /\ last' = [op |-> "consume", req |-> req, pre |-> inventory, ret |-> out.ok]
    /\ UNCHANGED <<reservation, notInv>>

InvAdd ==
    /\ NoReservation
    /\ \E amounts \in Dicts(ReqArgs) :
        LET out == add(inventory, amounts)
        IN /\ \A r \in Res : out.inv.quantities[r] <= MaxQty
           /\ inventory' = out.inv
           /\ last' = [op |-> "add", req |-> amounts, pre |-> inventory,
                       ret |-> out.residual]
    /\ UNCHANGED <<reservation, notInv>>

InvBulkLoad ==
    /\ NoReservation
    /\ \E r \in InvRes, a \in AmtArgs : \E c \in DictsOn(r, AmtArgs) :
        LET q == [x \in {r} |-> a] IN
        /\ inventory' = bulk_load(inventory, q, c)
        /\ last' = [op |-> "bulk_load", req |-> q, caps |-> c, pre |-> inventory]
    /\ UNCHANGED <<reservation, notInv>>

InvReserve ==
    /\ NoReservation
    /\ \E amounts \in Dicts(ReqArgs) :
        LET out == reserve(inventory, amounts)
        IN /\ inventory' = out.inv
           /\ reservation' = out.token
           /\ last' = [op |-> "reserve", req |-> amounts, pre |-> inventory,
                       ret |-> out.token.ok]
    /\ UNCHANGED notInv

InvCommit ==
    /\ reservation.ok
    /\ inventory' = commit(inventory, reservation)
    /\ reservation' = NoToken
    /\ last' = [op |-> "commit", req |-> reservation.amounts, pre |-> inventory,
                origin |-> last.pre]
    /\ UNCHANGED notInv

InvRollback ==
    /\ reservation.ok
    /\ inventory' = rollback(inventory, reservation)
    /\ reservation' = NoToken
    /\ last' = [op |-> "rollback", req |-> reservation.amounts, pre |-> inventory,
                origin |-> last.pre]
    /\ UNCHANGED notInv

InvNext ==
    \/ InvSetCapacity
    \/ InvSetAmount
    \/ InvConsume
    \/ InvAdd
    \/ InvBulkLoad
    \/ InvReserve
    \/ InvCommit
    \/ InvRollback

SpecInv == InvInit /\ [][InvNext]_vars

\* ------------------------------------------------------------------------
\* SpecBld: one lumber hut ticked directly against an Inventory, the way
\* tests/test_backend.py and tests/test_building_system.py drive a Building

MaxPlank == 1
MaxWood == 8

DtArgs == {0, 4, 16}
MultArgs == {MulScale}
WoodGrants == {1, MaxWood}
MaintenanceCycles == 4

BldInit ==
    /\ inventory = NewInventory
    /\ reservation = NoToken
    /\ building = [build_from_config(LUMBER_HUT) EXCEPT !.built = 1]
    /\ NoGame
    /\ last = NoOp

\* building.tick(dt, inventory, notify, modifiers)
BldTick ==
    \E dt \in DtArgs, mult \in MultArgs :
        LET out == BuildingTick(building, dt, inventory, mult)
        IN /\ get_amount(inventory, "PLANK") <= Units(MaxPlank)
           /\ building' = out.b
           /\ inventory' = out.inv
           /\ last' = [op |-> "tick", dt |-> dt, mult |-> mult,
                       pre |-> inventory, b |-> building, ret |-> out.report]
           /\ UNCHANGED notBld

\* building.assigned_workers = n
BldSetWorkers ==
    \E n \in 0..recipe(building).max_workers :
        /\ n # building.assigned_workers
        /\ building' = [building EXCEPT !.assigned_workers = n]
        /\ last' = [op |-> "set_workers"]
        /\ UNCHANGED <<inventory, notBld>>

\* building.enabled = not building.enabled
BldToggle ==
    /\ building' = [building EXCEPT !.enabled = ~building.enabled]
    /\ last' = [op |-> "toggle"]
    /\ UNCHANGED <<inventory, notBld>>

\* inventory.set_amount(WOOD, n), .set_amount(GOLD, g), .set_amount(PLANK, 0)
BldGrant ==
    /\ \/ \E n \in WoodGrants : inventory' = set_amount(inventory, "WOOD", Units(n))
       \/ \E g \in {0, MaintenanceCycles} :
            inventory' = set_amount(inventory, "GOLD",
                                    g * recipe(building).maintenance["GOLD"])
       \/ inventory' = set_amount(inventory, "PLANK", 0)
    /\ inventory' # inventory
    /\ last' = [op |-> "grant"]
    /\ UNCHANGED <<building, notBld>>

\* inventory.add({WOOD: 1}) while the stock is short of one cycle's input
BldAddWood ==
    /\ ~has(inventory, recipe(building).inputs)
    /\ inventory' = add(inventory, [r \in {"WOOD"} |-> Units(1)]).inv
    /\ last' = [op |-> "add_wood"]
    /\ UNCHANGED <<building, notBld>>

\* inventory.set_capacity(PLANK, 1)
BldSetCapacity ==
    /\ ~HasCapacity(inventory, "PLANK")
    /\ inventory' = set_capacity(inventory, "PLANK", Units(1))
    /\ last' = [op |-> "set_plank_capacity"]
    /\ UNCHANGED <<building, notBld>>

BldNext ==
    \/ BldTick
    \/ BldSetWorkers
    \/ BldToggle
    \/ BldGrant
    \/ BldAddWood
    \/ BldSetCapacity

SpecBld == BldInit /\ [][BldNext]_vars

\* ------------------------------------------------------------------------
\* Spec: a GameState driven through its public methods. The trade channels
\* stay as TRADE_DEFAULTS leaves them, paused at rate 0; SetTradeMode and
\* SetTradeRate below are the controls that would open one.

MaxBuilt == 2
MaxVersion == 7
MaxTicks == 2

GameTypes == {WOODCUTTER_CAMP, LUMBER_HUT}
\* a key that names no building type
UnknownType == "castle"
TypeArgs == GameTypes \cup {UnknownType}
DeltaArgs == {0 - 1, 2}
ToggleArgs == {LUMBER_HUT}
WoodcutterArgs == 0..2
GameDtArgs == {0, 20}
TradeArgs == {"PLANK"}
ModeArgs == {"pause", "import", "export"}
RateArgs == {0, 120}

\* the GameState as one record, and the assignment of one to the variables
Game ==
    [buildings |-> buildings, ids |-> building_ids, inv |-> inventory,
     wood |-> wood_state, clock |-> season_clock, channels |-> channels,
     version |-> state_version, ticks |-> tick_count,
     reports |-> last_production_reports, notifications |-> notifications,
     active |-> active_missing_notifications]

SetGame(g) ==
    /\ buildings' = g.buildings
    /\ building_ids' = g.ids
    /\ inventory' = g.inv
    /\ wood_state' = g.wood
    /\ season_clock' = g.clock
    /\ channels' = g.channels
    /\ state_version' = g.version
    /\ tick_count' = g.ticks
    /\ last_production_reports' = g.reports
    /\ notifications' = g.notifications
    /\ active_missing_notifications' = g.active

\* g with the [buildings, inv, wood] that _recompute_wood_state_locked left
Merged(g, r) ==
    [g EXCEPT !.buildings = r.buildings, !.inv = r.inv, !.wood = r.wood]

Recomputed(g) == Merged(g, recompute_wood_state(g))

\* _initialise_starting_buildings: one woodcutter camp, built, no workers
StartingBuildings ==
    [id \in {WOODCUTTER_CAMP} |->
        [build_from_config(WOODCUTTER_CAMP) EXCEPT !.built = 1, !.enabled = TRUE]]

\* GameState._initialise_state, recompute_wood_caps() included
InitialGame ==
    LET g == [buildings |-> StartingBuildings, ids |-> <<WOODCUTTER_CAMP>>,
              inv |-> initialise_inventory(NewInventory, 1),
              wood |-> NewWoodState, clock |-> NewSeasonClock,
              channels |-> TRADE_DEFAULTS, version |-> 0, ticks |-> 0,
              reports |-> [id \in {WOODCUTTER_CAMP} |-> new_report],
              notifications |-> << >>, active |-> EmptyDict]
        recomputed(r) == [Merged(g, r) EXCEPT !.version = IF r.changed THEN 1 ELSE 0]
    IN recomputed(recompute_wood_state(g))

Init ==
    /\ \E g \in {InitialGame} :
        /\ buildings = g.buildings
        /\ building_ids = g.ids
        /\ inventory = g.inv
        /\ wood_state = g.wood
        /\ season_clock = g.clock
        /\ channels = g.channels
        /\ state_version = g.version
        /\ tick_count = g.ticks
        /\ last_production_reports = g.reports
        /\ notifications = g.notifications
        /\ active_missing_notifications = g.active
    /\ reservation = NoToken
    /\ building = build_from_config(LUMBER_HUT)
    /\ threads = NoThreads
    /\ save_file = NoSave
    /\ graph_cache = NoGraph
    /\ last = NoOp

\* build_building that builds whatever the ledger holds, debiting what it can
build_building_unchecked(g, type_key) ==
    LET cost == BUILD_COSTS[type_key]
        exists == type_key \in DOMAIN g.buildings
        fresh == [build_from_config(type_key) EXCEPT !.built = 0]
        b0 == IF exists THEN g.buildings[type_key] ELSE fresh
        b1 == [b0 EXCEPT !.built = built_count(b0) + 1, !.enabled = TRUE]
    IN IF type_key \notin DOMAIN BUILDING_RECIPES
       THEN [error |-> "ValueError", g |-> g]
       ELSE [error |-> "none",
             g |-> [g EXCEPT !.inv = consume_partial(g.inv, cost).inv,
                             !.buildings = Put(g.buildings, type_key, b1),
                             !.ids = IF exists THEN g.ids ELSE Append(g.ids, type_key),
                             !.reports = IF exists THEN g.reports
                                         ELSE Put(g.reports, type_key,
                                                  fresh.production_report),
                             !.version = @ + 1]]

\* GameState.build_building(type_key): the state after it, or the error
build_building(g, type_key) ==
    LET cost == BUILD_COSTS[type_key]
        exists == type_key \in DOMAIN g.buildings
        paid == consume(g.inv, cost)
        fresh == [build_from_config(type_key) EXCEPT !.built = 0]
        b0 == IF exists THEN g.buildings[type_key] ELSE fresh
        b1 == [b0 EXCEPT !.built = built_count(b0) + 1, !.enabled = TRUE]
        b2 == [b1 EXCEPT !.assigned_workers = Min(b1.assigned_workers, max_workers(b1))]
        g1 == [g EXCEPT !.inv = paid.inv,
                        !.buildings = Put(g.buildings, type_key, b2),
                        !.ids = IF exists THEN g.ids ELSE Append(g.ids, type_key),
                        !.reports = IF exists THEN g.reports
                                    ELSE Put(g.reports, type_key, fresh.production_report)]
    IN IF type_key \notin DOMAIN BUILDING_RECIPES
       THEN [error |-> "ValueError", g |-> g]
       ELSE IF DOMAIN cost # {} /\ (~has(g.inv, cost) \/ ~paid.ok)
       THEN [error |-> "InsufficientResourcesError", g |-> g, requirements |-> cost]
       ELSE [error |-> "none",
             g |-> [(IF type_key = WOODCUTTER_CAMP THEN Recomputed(g1) ELSE g1)
                       EXCEPT !.version = @ + 1,
                              !.notifications =
                                 add_notification(@, <<"Construido", type_key>>)]]

\* a refund of twice the build cost
refund_doubled(type_key) ==
    IF type_key = WOODCUTTER_CAMP THEN EmptyDict
    ELSE [r \in DOMAIN BUILD_COSTS[type_key] |-> BUILD_COSTS[type_key][r] * 2]

\* half of the build cost, the refund of demolish_building
Refund(type_key) ==
    IF type_key = WOODCUTTER_CAMP THEN EmptyDict
    ELSE [r \in DOMAIN BUILD_COSTS[type_key] |-> BUILD_COSTS[type_key][r] \div 2]

\* demolish_building that takes one off whatever the built count is
demolish_building_unchecked(g, building_id) ==
    IF building_id \notin DOMAIN BUILDING_RECIPES \/ building_id \notin DOMAIN g.buildings
    THEN [error |-> "ValueError", g |-> g]
    ELSE [error |-> "none",
          g |-> [g EXCEPT !.buildings[building_id].built = @ - 1,
                          !.version = @ + 1]]

\* GameState.demolish_building(building_id)
demolish_building(g, building_id) ==
    LET b0 == g.buildings[building_id]
        b1 == [b0 EXCEPT !.built = built_count(b0) - 1,
                         !.enabled = IF built_count(b0) - 1 <= 0
                                     THEN FALSE ELSE b0.enabled]
        b2 == [b1 EXCEPT !.assigned_workers = Min(b1.assigned_workers, max_workers(b1))]
        refund == Refund(building_id)
        g1 == [g EXCEPT !.buildings = [g.buildings EXCEPT ![building_id] = b2],
                        !.inv = IF DOMAIN refund # {}
                                THEN add(g.inv, refund).inv ELSE g.inv,
                        !.notifications =
                            IF DOMAIN refund # {}
                            THEN add_notifications(g.notifications,
                                                   add_notes(g.inv, refund))
                            ELSE g.notifications]
    IN IF building_id \notin DOMAIN BUILDING_RECIPES \/ building_id \notin DOMAIN g.buildings
       THEN [error |-> "ValueError", g |-> g]
       ELSE IF built_count(b0) <= 0
       THEN [error |-> "NothingToDemolishError", g |-> g]
       ELSE [error |-> "none",
             g |-> [(IF building_id = WOODCUTTER_CAMP THEN Recomputed(g1) ELSE g1)
                       EXCEPT !.version = @ + 1,
                              !.notifications =
                                 add_notification(@, <<"demolido", building_id>>)]]

\* toggle_building that ignores an id it does not know
toggle_building_silent(g, building_id, enabled) ==
    IF building_id \notin DOMAIN g.buildings
    THEN [error |-> "none", g |-> g]
    ELSE [error |-> "none",
          g |-> [g EXCEPT !.buildings[building_id].enabled = enabled]]

\* GameState.toggle_building(building_id, enabled)
toggle_building(g, building_id, enabled) ==
    IF building_id \notin DOMAIN g.buildings
    THEN [error |-> "ValueError", g |-> g]
    ELSE [error |-> "none",
          g |-> [g EXCEPT
                   !.buildings[building_id].enabled = enabled,
                   !.buildings[building_id].status =
                        IF enabled THEN g.buildings[building_id].status ELSE "pausado",
                   !.notifications =
                        add_notification(g.notifications,
                            <<IF enabled THEN "activado" ELSE "desactivado",
                              building_id>>)]]

\* GameState.apply_worker_delta(building_id, delta)
apply_worker_delta(g, building_id, delta) ==
    LET b0 == g.buildings[building_id]
        is_woodcutter == building_id = WOODCUTTER_CAMP
        recomputed(out, g1, r) ==
            [error |-> "none",
             g |-> [(IF is_woodcutter THEN Merged(g1, r) ELSE g1)
                       EXCEPT !.version = IF out.applied # 0
                                             \/ (is_woodcutter /\ r.changed)
                                          THEN @ + 1 ELSE @],
             applied |-> out.applied]
        assigned(out, g1) == recomputed(out, g1, recompute_wood_state(g1))
        pooled(out) ==
            IF ~out.ok
            THEN [error |-> "WorkerAllocationError", g |-> g, applied |-> 0]
            ELSE assigned(out, [g EXCEPT !.buildings[building_id] = out.b])
    IN IF building_id \notin DOMAIN g.buildings
       THEN [error |-> "ValueError", g |-> g, applied |-> 0]
       ELSE IF delta = 0
       THEN [error |-> "none", g |-> g, applied |-> 0]
       ELSE pooled(IF delta > 0
                   THEN assign_workers(b0, delta,
                            available_workers(g.buildings, POPULATION_INITIAL))
                   ELSE [ok |-> TRUE] @@ unassign_workers(b0, 0 - delta))

\* GameState.assign_workers_to_woodcutter(number)
assign_workers_to_woodcutter(g, number) ==
    LET recomputed(initial, g2, r) ==
            [Merged(g2, r) EXCEPT !.version = IF r.changed \/ initial.changed
                                              THEN @ + 1 ELSE @]
        assigned(initial, g2) == recomputed(initial, g2, recompute_wood_state(g2))
        clamped(initial, g1) ==
            LET exists == WOODCUTTER_CAMP \in DOMAIN g1.buildings
                current_assigned ==
                    IF exists
                    THEN Max(0, g1.buildings[WOODCUTTER_CAMP].assigned_workers)
                    ELSE 0
                max_assignable == current_assigned
                                    + available_workers(g1.buildings, POPULATION_INITIAL)
                target == IF ~exists \/ g1.wood.woodcutter_camps_built <= 0 THEN 0
                          ELSE Min(Min(Max(0, number), g1.wood.max_workers_woodcutter),
                                   max_assignable)
            IN assigned(initial,
                        IF exists
                        THEN [g1 EXCEPT !.buildings[WOODCUTTER_CAMP] =
                                set_assignment(g1.buildings[WOODCUTTER_CAMP], target)]
                        ELSE g1)
        first(initial) == clamped(initial, Merged(g, initial))
    IN first(recompute_wood_state(g))

\* every resource amount of an inventory, for the history of a tick
Stock(inv) == inv.quantities

Build ==
    /\ state_version < MaxVersion
    /\ \E t \in TypeArgs :
        /\ t \in DOMAIN buildings => built_count(buildings[t]) < MaxBuilt
        /\ \E out \in {build_building(Game, t)} :
              /\ SetGame(out.g)
              /\ last' = [op |-> "build", error |-> out.error]
    /\ UNCHANGED notGame

Demolish ==
    /\ state_version < MaxVersion
    /\ \E id \in TypeArgs :
        \E out \in {demolish_building(Game, id)} :
           /\ SetGame(out.g)
           /\ last' = [op |-> "demolish", id |-> id, error |-> out.error,
                       before |-> IF id \in DOMAIN buildings
                                  THEN buildings[id].assigned_workers ELSE 0,
                       free |-> available_workers(buildings, POPULATION_INITIAL)]
    /\ UNCHANGED notGame

Toggle ==
    /\ \E id \in ToggleArgs, enabled \in BOOLEAN :
        \E out \in {toggle_building(Game, id, enabled)} :
           /\ SetGame(out.g)
           /\ last' = [op |-> "toggle", error |-> out.error]
    /\ UNCHANGED notGame

WorkerDelta ==
    /\ state_version < MaxVersion
    /\ \E id \in GameTypes, delta \in DeltaArgs :
        \E out \in {apply_worker_delta(Game, id, delta)} :
           /\ SetGame(out.g)
           /\ last' = [op |-> "worker_delta", error |-> out.error,
                       applied |-> out.applied]
    /\ UNCHANGED notGame

AssignWoodcutter ==
    /\ state_version < MaxVersion
    /\ \E n \in WoodcutterArgs :
        \E g \in {assign_workers_to_woodcutter(Game, n)} :
           /\ SetGame(g)
           /\ last' = [op |-> "assign_woodcutter"]
    /\ UNCHANGED notGame

\* ui_bridge.set_trade_mode(resource_key, mode)
SetTradeMode ==
    /\ \E r \in TradeArgs, mode \in ModeArgs :
        /\ channels' = [channels EXCEPT ![r].mode = mode]
        /\ last' = [op |-> "set_trade_mode", res |-> r, mode |-> mode]
    /\ UNCHANGED <<inventory, buildings, building_ids, wood_state, season_clock,
                   state_version, tick_count, last_production_reports,
                   notifications, active_missing_notifications, notGame>>

\* ui_bridge.set_trade_rate(resource_key, rate)
SetTradeRate ==
    /\ \E r \in TradeArgs, rate \in RateArgs :
        /\ channels' = [channels EXCEPT ![r].rate_per_min = Max(0, rate)]
        /\ last' = [op |-> "set_trade_rate", res |-> r, rate |-> rate]
    /\ UNCHANGED <<inventory, buildings, building_ids, wood_state, season_clock,
                   state_version, tick_count, last_production_reports,
                   notifications, active_missing_notifications, notGame>>

\* GameState.tick(dt)
Tick ==
    /\ state_version < MaxVersion
    /\ tick_count < MaxTicks
    /\ \E dt \in GameDtArgs :
        \E g \in {game_tick(Game, dt)} :
           /\ SetGame(g)
           /\ last' = [op |-> "tick", dt |-> dt, pre |-> Stock(inventory),
                       paused |-> \A r \in Res :
                                     channels[r].mode = "pause"
                                     \/ channels[r].rate_per_min = 0,
                       missing |-> DOMAIN active_missing_notifications]
    /\ UNCHANGED notGame

Next ==
    \/ Build
    \/ Demolish
    \/ Toggle
    \/ WorkerDelta
    \/ AssignWoodcutter
    \/ Tick

Spec == Init /\ [][Next]_vars

\* ------------------------------------------------------------------------
\* Properties of the Inventory (SpecInv)

\* C1: every resource amount of the ledger is >= 0 in every reachable state.
\* Inventory.set_capacity with a negative capacity stores the negative
\* capacity as the amount.
NoNegativeStock ==
    \A r \in Res : inventory.quantities[r] >= 0

\* C4: consume(requirements) is all-or-nothing: if any required resource is
\* short it returns false and changes nothing; otherwise it returns true
\* and every required resource decreases by exactly its required amount.
ConsumeAllOrNothing ==
    last.op = "consume" =>
        IF \E r \in DOMAIN last.req : last.pre.quantities[r] < last.req[r]
        THEN last.ret = FALSE /\ inventory = last.pre
        ELSE /\ last.ret = TRUE
             /\ inventory.capacities = last.pre.capacities
             /\ \A r \in Res :
                    inventory.quantities[r]
                        = last.pre.quantities[r] - Get(last.req, r)

\* a refused consume of two resources of which one was in stock
ConsumeRefusedWitness ==
    /\ last.op = "consume"
    /\ last.ret = FALSE
    /\ \E r1, r2 \in DOMAIN last.req :
        /\ last.pre.quantities[r1] >= last.req[r1]
        /\ last.pre.quantities[r2] < last.req[r2]

\* C5: add(amounts) credits each resource up to its capacity and returns the
\* overflow: new = min(old + requested, capacity) (no cap when the capacity
\* is unset) and credited + residual = requested.
AddCreditsUpToCapacity ==
    last.op = "add" =>
        \A r \in DOMAIN last.req :
            LET old == last.pre.quantities[r]
                new == inventory.quantities[r]
            IN /\ new = IF HasCapacity(last.pre, r)
                        THEN Min(old + last.req[r], last.pre.capacities[r])
                        ELSE old + last.req[r]
               /\ (new - old) + Get(last.ret, r) = last.req[r]

\* C6: for every resource whose capacity is set, amount <= capacity, and a
\* capacity change never raises the stored amount.
CapacityInvariant ==
    /\ \A r \in DOMAIN inventory.capacities :
            inventory.quantities[r] <= inventory.capacities[r]
    /\ last.op = "set_capacity" =>
            inventory.quantities[last.res] <= last.pre.quantities[last.res]

\* C7: reserve gives a token exactly when every amount is available and
\* leaves the ledger unchanged when it gives none; rollback restores the
\* ledger of reservation time; commit leaves every reserved resource
\* decreased by exactly the reserved amount.
ReservationProtocol ==
    /\ last.op = "reserve" =>
        /\ last.ret = (\A r \in DOMAIN last.req :
                            last.pre.quantities[r] >= last.req[r])
        /\ reservation.ok = last.ret
        /\ ~last.ret => inventory = last.pre
    /\ last.op = "rollback" => inventory = last.origin
    /\ last.op = "commit" =>
        /\ inventory.capacities = last.origin.capacities
        /\ \A r \in Res :
                inventory.quantities[r]
                    = last.origin.quantities[r] - Get(last.req, r)

\* a rollback that gave back two reserved resources
RollbackWitness ==
    /\ last.op = "rollback"
    /\ Cardinality(DOMAIN last.req) = 2
    /\ \A r \in DOMAIN last.req : inventory.quantities[r] > last.pre.quantities[r]

\* ------------------------------------------------------------------------
\* Properties of a Building ticked on its own (SpecBld)

HutRecipe == BUILDING_RECIPES[LUMBER_HUT]

\* the last operation was an active tick of the hut at modifier 1.0
ActiveTick ==
    /\ last.op = "tick"
    /\ last.mult = MulScale
    /\ last.b.enabled
    /\ last.b.assigned_workers >= 1

\* whole cycles due in the last tick: banked progress plus dt seconds at
\* the rate workers / max_workers, over the cycle time
CyclesDue ==
    (last.b.cycle_progress
        + (last.dt * PScale * Min(last.b.assigned_workers, HutRecipe.max_workers))
            \div HutRecipe.max_workers)
      \div (HutRecipe.cycle_time * PScale)

\* the stock before the last tick covers n cycles and nothing caps the output
StockFor(n) ==
    /\ get_amount(last.pre, "WOOD") >= n * HutRecipe.inputs["WOOD"]
    /\ get_amount(last.pre, "GOLD") >= n * HutRecipe.maintenance["GOLD"]
    /\ ~HasCapacity(last.pre, "PLANK")

\* the last tick moved the ledger by exactly n cycles
LedgerMovedBy(n) ==
    /\ get_amount(inventory, "PLANK")
            = get_amount(last.pre, "PLANK") + n * HutRecipe.outputs["PLANK"]
    /\ get_amount(inventory, "WOOD")
            = get_amount(last.pre, "WOOD") - n * HutRecipe.inputs["WOOD"]
    /\ get_amount(inventory, "GOLD")
            = get_amount(last.pre, "GOLD") - n * HutRecipe.maintenance["GOLD"]

\* C8 as stated: a hut (cycle_time 4, max_workers 2) with one worker and
\* sufficient stock, ticked once with dt = 16 at modifier 1.0, executes
\* exactly 4 cycles.
CatchUpFourCyclesOneWorker ==
    (ActiveTick /\ last.dt = 16 /\ last.b.assigned_workers = 1 /\ StockFor(4))
        => LedgerMovedBy(4)

\* C8 amended: a hut with sufficient stock ticked once with dt = 16 at
\* modifier 1.0 executes exactly floor((banked progress + 16 * workers /
\* max_workers) / 4) cycles in that tick: 4 with both workers and nothing
\* banked, 2 with one worker of two; the ledger gains exactly that many
\* times the outputs and loses that many times inputs + maintenance, and
\* the report carries those totals.
CatchUpCycles ==
    (ActiveTick /\ last.dt = 16 /\ StockFor(CyclesDue))
        => /\ LedgerMovedBy(CyclesDue)
           /\ last.b.cycle_progress = 0 =>
                CyclesDue = IF last.b.assigned_workers = 1 THEN 2 ELSE 4
           /\ last.ret.status = "produced"
           /\ last.ret.produced
                = [r \in {"PLANK"} |-> CyclesDue * HutRecipe.outputs["PLANK"]]
           /\ last.ret.consumed
                = [r \in {"WOOD", "GOLD"} |->
                     IF r = "WOOD" THEN CyclesDue * HutRecipe.inputs["WOOD"]
                     ELSE CyclesDue * HutRecipe.maintenance["GOLD"]]

\* a fully staffed fresh hut ran four cycles in one tick of 16 seconds
CatchUpWitness ==
    /\ ActiveTick /\ last.dt = 16 /\ StockFor(4)
    /\ last.b.assigned_workers = 2
    /\ last.b.cycle_progress = 0
    /\ LedgerMovedBy(4)

\* the hut had stalled on wood and the stock has since been topped up to
\* exactly one cycle's input, with maintenance and room for the output
ResumeAfterWoodStall ==
    /\ ActiveTick
    /\ last.b.production_report.status = "stalled"
    /\ last.b.production_report.reason = "missing_input"
    /\ last.b.production_report.detail = "WOOD"
    /\ get_amount(last.pre, "WOOD") = HutRecipe.inputs["WOOD"]
    /\ get_amount(last.pre, "GOLD") >= HutRecipe.maintenance["GOLD"]
    /\ can_add(last.pre, HutRecipe.outputs)

\* C9 as stated: with 1 wood in stock the hut reports stalled/missing_input
\* and leaves the stock at 1; once 1 more wood has been added the next
\* tick reports produced and the wood stock is exactly 0.
StallResumeReportsProduced ==
    /\ (ActiveTick /\ CyclesDue >= 1 /\ get_amount(last.pre, "WOOD") = Units(1))
            => /\ last.ret.status = "stalled"
               /\ last.ret.reason = "missing_input"
               /\ inventory = last.pre
    /\ ResumeAfterWoodStall
            => /\ last.ret.status = "produced"
               /\ get_amount(inventory, "WOOD") = 0

\* C9 amended: with 1 wood in stock a hut that is due for a cycle reports
\* stalled/missing_input and leaves the ledger as it was; once 1 more wood
\* has been added the next tick, whatever its dt, executes exactly one
\* cycle and the wood stock is exactly 0; it reports produced when that
\* tick adds less than one cycle of progress, and otherwise stalled /
\* missing_input with the cycle's totals, because a second cycle was due
\* and found the stock short.  A stalled hut produces on the first later tick at
\* which inputs, maintenance and capacity suffice, with no reset.
StallResume ==
    /\ (ActiveTick /\ CyclesDue >= 1 /\ get_amount(last.pre, "WOOD") = Units(1))
            => /\ last.ret.status = "stalled"
               /\ last.ret.reason = "missing_input"
               /\ inventory = last.pre
    /\ ResumeAfterWoodStall
            => /\ LedgerMovedBy(1)
               /\ get_amount(inventory, "WOOD") = 0
               /\ last.ret.produced = HutRecipe.outputs
               /\ IF CyclesDue = 1
                  THEN last.ret.status = "produced"
                  ELSE /\ last.ret.status = "stalled"
                       /\ last.ret.reason = "missing_input"
                       /\ last.ret.detail \in {"WOOD", "GOLD"}
    /\ (/\ ActiveTick
        /\ last.b.production_report.status = "stalled"
        /\ has(last.pre, combine_resources(HutRecipe.inputs, HutRecipe.maintenance))
        /\ can_add(last.pre, HutRecipe.outputs))
            => get_amount(inventory, "PLANK") > get_amount(last.pre, "PLANK")

\* the hut resumed after a wood stall and reported produced
StallResumeWitness ==
    /\ ResumeAfterWoodStall
    /\ last.ret.status = "produced"
    /\ get_amount(inventory, "WOOD") = 0

\* the last tick of the hut ended stalled for want of an input
StalledOnInput ==
    /\ last.op = "tick"
    /\ last.ret.status = "stalled"
    /\ last.ret.reason = "missing_input"

\* what one cycle of the hut takes: inputs and maintenance
HutCycleNeeds == combine_resources(HutRecipe.inputs, HutRecipe.maintenance)

\* C28 as stated: every tick of a discrete building that ends stalled /
\* missing_input reports empty consumed and produced maps and leaves the
\* amounts of the building's inputs and outputs as they were.
StalledTickIsEmpty ==
    StalledOnInput =>
        /\ last.ret.consumed = EmptyDict
        /\ last.ret.produced = EmptyDict
        /\ \A r \in DOMAIN HutCycleNeeds \cup DOMAIN HutRecipe.outputs :
              get_amount(inventory, r) = get_amount(last.pre, r)

\* C28 amended: a tick of a discrete building that ends stalled /
\* missing_input has moved the ledger by exactly the consumed and produced
\* totals of its report; when the stock at the start of the tick was short
\* of one cycle's inputs and maintenance, both maps are empty and the
\* ledger is as it was; when it was not, the tick ran at least one whole
\* cycle before the stall and the report carries those cycles' totals.
StalledTickAccounted ==
    StalledOnInput =>
        /\ \A r \in Res :
              get_amount(inventory, r)
                 = get_amount(last.pre, r) + Get(last.ret.produced, r)
                     - Get(last.ret.consumed, r)
        /\ ~has(last.pre, HutCycleNeeds) =>
              /\ last.ret.consumed = EmptyDict
              /\ last.ret.produced = EmptyDict
              /\ inventory = last.pre
        /\ has(last.pre, HutCycleNeeds) =>
              /\ Get(last.ret.produced, "PLANK") >= HutRecipe.outputs["PLANK"]
              /\ Get(last.ret.consumed, "WOOD") >= HutRecipe.inputs["WOOD"]

\* the hut of the test: 1 wood in stock, gold for the maintenance, a cycle
\* due, stalled with nothing consumed
StalledEmptyWitness ==
    /\ StalledOnInput
    /\ ActiveTick
    /\ get_amount(last.pre, "WOOD") = Units(1)
    /\ get_amount(last.pre, "GOLD") >= HutRecipe.maintenance["GOLD"]
    /\ last.ret.detail = "WOOD"
    /\ last.ret.consumed = EmptyDict

\* the cycles the last tick completed, read off its report
CyclesDone == Get(last.ret.produced, "PLANK") \div HutRecipe.outputs["PLANK"]

\* the progress the last tick had banked before it attempted its cycles
ProgressBanked ==
    last.b.cycle_progress
        + ProgressGain(last.b, last.b.assigned_workers, last.mult, last.dt)

\* an attempt against the ledger as it stands must fail
AttemptMustFail ==
    \/ ~has(inventory, HutRecipe.maintenance)
    \/ ~has(inventory, HutRecipe.inputs)
    \/ ~can_add(inventory, HutRecipe.outputs)

\* C29: a discrete cycle attempt is all-or-nothing: after a tick that
\* ended on a failed attempt (missing maintenance, missing input or no
\* capacity) the ledger is the ledger before the tick moved by exactly the
\* cycles completed before that attempt (every amount is what it was
\* before the failed attempt, the completed cycles are not rolled back), the
\* loop stopped there although more cycles were due, and cycle_progress is
\* the progress left clamped to cycle_time.
AttemptAllOrNothing ==
    (last.op = "tick" /\ last.ret.status = "stalled") =>
        /\ last.ret.reason \in {"missing_input", "no_capacity"}
        /\ LedgerMovedBy(CyclesDone)
        /\ \A r \in Res \ {"PLANK", "WOOD", "GOLD"} :
              get_amount(inventory, r) = get_amount(last.pre, r)
        /\ CyclesDone < ProgressBanked \div cycle_time_sec(last.b)
        /\ AttemptMustFail
        /\ building.cycle_progress
              = Min(ProgressBanked - CyclesDone * cycle_time_sec(last.b),
                    cycle_time_sec(last.b))
        /\ building.cycle_progress <= cycle_time_sec(building)

\* a tick that completed a cycle, failed the next attempt with more than
\* one further cycle due, and kept the completed cycle
FailedAfterCycleWitness ==
    /\ last.op = "tick"
    /\ last.ret.status = "stalled"
    /\ CyclesDone >= 1
    /\ ProgressBanked \div cycle_time_sec(last.b) >= CyclesDone + 2
    /\ get_amount(inventory, "PLANK") > get_amount(last.pre, "PLANK")
    /\ building.cycle_progress = cycle_time_sec(building)

\* ------------------------------------------------------------------------
\* Properties of the GameState (Spec)

\* C2: the workers assigned over all buildings never exceed the population,
\* no building holds more workers than its max_workers (recipe max_workers x
\* built), and a demolition that shrinks max_workers below the assigned
\* count takes the excess off the building and returns it to the pool.
LaborInvariant ==
    /\ SumAssigned(buildings, DOMAIN buildings) <= POPULATION_INITIAL
    /\ \A id \in DOMAIN buildings :
          /\ buildings[id].assigned_workers >= 0
          /\ buildings[id].assigned_workers <= max_workers(buildings[id])
    /\ (last.op = "demolish" /\ last.error = "none") =>
          /\ buildings[last.id].assigned_workers
                = Min(last.before, max_workers(buildings[last.id]))
          /\ available_workers(buildings, POPULATION_INITIAL)
                = last.free + (last.before - buildings[last.id].assigned_workers)

\* a demolition left the building fewer worker slots than it had workers
DemolishClawsBackWitness ==
    /\ last.op = "demolish"
    /\ last.error = "none"
    /\ last.before > max_workers(buildings[last.id])
    /\ available_workers(buildings, POPULATION_INITIAL) > last.free

\* what the report of one building says it produced of resource r; the
\* woodcutter's report names its wood "wood"
ReportedProduced(report, r) ==
    Get(report.produced, r) + (IF r = "WOOD" THEN Get(report.produced, "wood") ELSE 0)

\* produced minus consumed of resource r, summed over the reports of a tick
RECURSIVE ReportedNet(_, _, _)
ReportedNet(reports, ids, r) ==
    IF ids = {} THEN 0
    ELSE LET id == CHOOSE x \in ids : TRUE
         IN ReportedProduced(reports[id], r) - Get(reports[id].consumed, r)
              + ReportedNet(reports, ids \ {id}, r)

\* n times the amounts of d
Times(n, d) == [r \in DOMAIN d |-> n * d[r]]

\* C3: over a tick with every trade channel paused (no operation of Spec
\* opens one), the ledger amount of every resource changes by what the
\* production reports of the tick say was produced minus what they say was
\* consumed, and a lumber hut reports, for the n cycles it completed, n times
\* inputs + maintenance consumed and n times outputs produced.
Conservation ==
    (last.op = "tick" /\ last.paused) =>
        /\ \A r \in Res :
              inventory.quantities[r] - last.pre[r]
                = ReportedNet(last_production_reports,
                              DOMAIN last_production_reports, r)
        /\ LUMBER_HUT \in DOMAIN last_production_reports =>
              LET report == last_production_reports[LUMBER_HUT]
                  n == Get(report.produced, "PLANK") \div Units(1)
              IN /\ report.produced = Positive(Times(n, HutRecipe.outputs))
                 /\ report.consumed =
                        Positive(Times(n, combine_resources(HutRecipe.inputs,
                                                           HutRecipe.maintenance)))

\* a tick in which the hut completed two cycles and the woodcutter cut wood
ConservationWitness ==
    /\ last.op = "tick"
    /\ last.paused
    /\ LUMBER_HUT \in DOMAIN last_production_reports
    /\ Get(last_production_reports[LUMBER_HUT].consumed, "WOOD") = Units(4)
    /\ Get(last_production_reports[LUMBER_HUT].produced, "PLANK") = Units(2)
    /\ Get(last_production_reports[WOODCUTTER_CAMP].produced, "wood") > 0

\* the reports of the last tick that belong to lumber huts
HutReports ==
    {id \in DOMAIN last_production_reports : buildings[id].type_key = LUMBER_HUT}

\* C10: when two lumber huts are built and staffed, the stock holds exactly
\* 2 wood and the huts are due for a cycle in a tick, one hut reports produced
\* and the other reports stalled/missing_input. build_building stacks the
\* second hut onto the first Building (built = 2), so the tick has one report
\* for both.
ContentionOneProducedOneStalled ==
    (/\ last.op = "tick"
     /\ last.pre["WOOD"] = Units(2)
     /\ LUMBER_HUT \in DOMAIN buildings
     /\ built_count(buildings[LUMBER_HUT]) = 2
     /\ LUMBER_HUT \in DOMAIN last_production_reports
     /\ last_production_reports[LUMBER_HUT].status # "inactive") =>
        /\ \E a, b \in HutReports :
              /\ a # b
              /\ last_production_reports[a].status = "produced"
              /\ last_production_reports[b].status = "stalled"
              /\ last_production_reports[b].reason = "missing_input"
        /\ last.pre["WOOD"] - inventory.quantities["WOOD"]
              + ReportedProduced(last_production_reports[WOODCUTTER_CAMP], "WOOD")
              = Units(2)

\* ------------------------------------------------------------------------
\* Properties of a zero-second tick (Spec)

\* C11: GameState.tick(0) leaves every resource amount of the ledger
\* unchanged, whatever the statuses and cycle_progress of the buildings.
\* Building.tick has no guard on dt: a hut that stalled keeps its
\* cycle_progress clamped at cycle_time, so a tick of 0 seconds still finds
\* one cycle due and runs it once its inputs are there.
ZeroDtTickKeepsLedger ==
    (last.op = "tick" /\ last.dt = 0) => Stock(inventory) = last.pre

\* ------------------------------------------------------------------------
\* SpecTrade: a fresh GameState whose trade channels are opened, whose
\* stock is set the way the trade tests set it (Inventory.set_amount,
\* Inventory.set_capacity) and which is ticked; nothing is built or staffed.

MaxTradeTicks == 3

\* the arguments of the set_amount and set_capacity calls
GrantArgs ==
    {<<"PLANK", Units(1)>>, <<"PLANK", Units(3)>>,
     <<"GOLD", Units(4)>>, <<"GOLD", CAPACIDADES["GOLD"]>>}
CapacityArgs == {<<"PLANK", 0>>, <<"PLANK", Units(1)>>}
TradeDtArgs == {0, 1}

\* state.inventory.set_amount(resource, amount)
GrantStock ==
    /\ \E p \in GrantArgs :
        inventory' = set_amount(inventory, p[1], p[2])
    /\ last' = [op |-> "set_amount"]
    /\ UNCHANGED <<gameVars, notGame>>

\* state.inventory.set_capacity(resource, capacity)
LimitCapacity ==
    /\ \E p \in CapacityArgs :
        inventory' = set_capacity(inventory, p[1], p[2])
    /\ last' = [op |-> "set_capacity"]
    /\ UNCHANGED <<gameVars, notGame>>

\* GameState.tick(dt); the history keeps the stock and the channels before
\* the tick, and those before the tick this one directly follows
TradeTick ==
    /\ tick_count < MaxTradeTicks
    /\ \E dt \in TradeDtArgs :
        \E g \in {game_tick(Game, dt)} :
           /\ SetGame(g)
           /\ last' = [op |-> "trade_tick", dt |-> dt, pre |-> Stock(inventory),
                       chans |-> channels,
                       earlier |-> IF last.op = "trade_tick"
                                   THEN [op |-> "trade_tick", dt |-> last.dt,
                                         pre |-> last.pre, chans |-> last.chans]
                                   ELSE NoOp]
    /\ UNCHANGED notGame

TradeNext ==
    \/ SetTradeMode
    \/ SetTradeRate
    \/ GrantStock
    \/ LimitCapacity
    \/ TradeTick

SpecTrade == Init /\ [][TradeNext]_vars

\* ------------------------------------------------------------------------
\* Properties of the trade channels (SpecTrade)

\* the amount a channel asks for in a tick of dt seconds
Demand(ch, dt) == (ch.rate_per_min * Scale * dt) \div 60

\* the record h of a tick tells that the channel of r ran in `mode` and
\* that every other channel was paused or asked for nothing
RanAlone(h, r, mode) ==
    /\ h.op = "trade_tick"
    /\ h.chans[r].mode = mode
    /\ Demand(h.chans[r], h.dt) > 0
    /\ \A x \in Res \ {r} :
          h.chans[x].mode = "pause" \/ Demand(h.chans[x], h.dt) <= 0

\* the tick h found stock 1 of r and an export demand of 2
PartialExport(h, r) ==
    /\ RanAlone(h, r, "export")
    /\ Demand(h.chans[r], h.dt) = Units(2)
    /\ h.pre[r] = Units(1)

\* C12: an export channel whose demand is 2 per tick on a resource with
\* stock 1 exports exactly 1 in that tick (the stock becomes 0 and the
\* channel stays in export mode); the next tick finds stock 0 and switches
\* the channel to pause without changing the ledger.
ExportAutoPause ==
    \A r \in TradeArgs :
        /\ PartialExport(last, r) =>
              /\ inventory.quantities[r] = 0
              /\ channels[r].mode = "export"
        /\ (RanAlone(last, r, "export") /\ PartialExport(last.earlier, r)) =>
              /\ last.pre[r] = 0
              /\ channels[r].mode = "pause"
              /\ Stock(inventory) = last.pre

ExportAutoPauseWitness ==
    \E r \in TradeArgs :
        /\ RanAlone(last, r, "export")
        /\ PartialExport(last.earlier, r)
        /\ channels[r].mode = "pause"
        /\ Stock(inventory) = last.pre

\* C13: an export channel that ticks with non-empty stock removes
\* actual = min(amount, stock) of the resource, gold rises by exactly
\* actual x price, and a stock-limited export does not pause the channel.
\* _handle_export credits the gold with Inventory.add and drops the
\* residual, so what exceeds the capacity of GOLD is lost.
ExportAccounting ==
    \A r \in TradeArgs :
        (RanAlone(last, r, "export") /\ last.pre[r] > 0) =>
            /\ inventory.quantities[r]
                  = last.pre[r] - Min(Demand(last.chans[r], last.dt), last.pre[r])
            /\ 2 * (inventory.quantities["GOLD"] - last.pre["GOLD"])
                  = Min(Demand(last.chans[r], last.dt), last.pre[r]) * PriceTwice(r)
            /\ channels[r].mode = "export"

\* what the ledger credited of r in the last tick, and the gold it took
Credited(r) == inventory.quantities[r] - last.pre[r]
GoldSpent == last.pre["GOLD"] - inventory.quantities["GOLD"]

\* the room r had before the last tick
RoomFor(r) ==
    IF HasCapacity(inventory, r)
    THEN Max(0, get_capacity(inventory, r) - last.pre[r])
    ELSE Demand(last.chans[r], last.dt)

\* C14: after an import tick the net gold spent is price x the amount of
\* the resource the ledger credited (what was refused for lack of capacity
\* is refunded); with no free capacity gold is unchanged and the channel
\* switches to pause.
ImportRefundSymmetry ==
    \A r \in TradeArgs :
        RanAlone(last, r, "import") =>
            /\ 2 * GoldSpent = PriceTwice(r) * Credited(r)
            /\ RoomFor(r) = 0 =>
                  /\ GoldSpent = 0
                  /\ channels[r].mode = "pause"

\* an import was cut by the capacity and part of its cost refunded
ImportRefundWitness ==
    \E r \in TradeArgs :
        /\ RanAlone(last, r, "import")
        /\ Credited(r) > 0
        /\ Credited(r) < Min(Demand(last.chans[r], last.dt),
                             (last.pre["GOLD"] * 2) \div PriceTwice(r))
        /\ 2 * GoldSpent = PriceTwice(r) * Credited(r)

\* the cost of the import demand of r exceeded the gold before the last tick
ImportShort(r) ==
    /\ RanAlone(last, r, "import")
    /\ (Demand(last.chans[r], last.dt) * PriceTwice(r)) \div 2 > last.pre["GOLD"]

\* the amount the gold before the last tick affords of r
Affordable(r) == (last.pre["GOLD"] * 2) \div PriceTwice(r)

\* C15: when the cost of the import amount exceeds the gold available, the
\* amount is reduced to available_gold / price, so gold does not go below
\* 0; when that amount is negligible the channel switches to pause and
\* neither gold nor the resource changes.
ImportWithinGold ==
    \A r \in TradeArgs :
        ImportShort(r) =>
            /\ inventory.quantities["GOLD"] >= 0
            /\ Credited(r) = Min(Affordable(r), RoomFor(r))
            /\ 2 * GoldSpent = PriceTwice(r) * Credited(r)
            /\ Affordable(r) <= 0 =>
                  /\ channels[r].mode = "pause"
                  /\ Stock(inventory) = last.pre

\* a reduced import that spent all the gold, followed by one that paused
ImportWithinGoldWitness ==
    \E r \in TradeArgs :
        /\ ImportShort(r)
        /\ Affordable(r) <= 0
        /\ channels[r].mode = "pause"
        /\ last.earlier.op = "trade_tick"
        /\ RanAlone(last.earlier, r, "import")
        /\ last.earlier.pre["GOLD"] > 0
        /\ (Demand(last.earlier.chans[r], last.earlier.dt) * PriceTwice(r)) \div 2
              > last.earlier.pre["GOLD"]

\* ------------------------------------------------------------------------
\* SpecOps: a GameState driven through construction, demolition, toggling
\* and staffing alone, over every modelled building type and one unknown
\* key; the history keeps the whole state before the call.

MaxOpsBuilt == 2
MaxOpsVersion == 6

OpsTypes == BTypes \cup {UnknownType}
OpsDeltaArgs == {0 - 1, 1, 3}
OpsToggleArgs == {STICK_GATHERING_TENT, UnknownType}

\* what the history keeps of the state before a call
Before ==
    [buildings |-> buildings, ids |-> building_ids, inv |-> inventory,
     version |-> state_version]

OpsBuild ==
    /\ state_version < MaxOpsVersion
    /\ \E t \in OpsTypes :
        /\ t \in DOMAIN buildings => built_count(buildings[t]) < MaxOpsBuilt
        /\ \E out \in {build_building(Game, t)} :
              /\ SetGame(out.g)
              /\ last' = [op |-> "ops_build", id |-> t, error |-> out.error,
                          requirements |->
                              IF out.error = "InsufficientResourcesError"
                              THEN out.requirements ELSE EmptyDict,
                          pre |-> Before]
    /\ UNCHANGED notGame

OpsDemolish ==
    /\ state_version < MaxOpsVersion
    /\ \E id \in OpsTypes :
        \E out \in {demolish_building(Game, id)} :
           /\ SetGame(out.g)
           /\ last' = [op |-> "ops_demolish", id |-> id, error |-> out.error,
                       pre |-> Before]
    /\ UNCHANGED notGame

OpsToggle ==
    /\ \E id \in OpsToggleArgs, enabled \in BOOLEAN :
        \E out \in {toggle_building(Game, id, enabled)} :
           /\ SetGame(out.g)
           /\ last' = [op |-> "ops_toggle", id |-> id, error |-> out.error,
                       pre |-> Before]
    /\ UNCHANGED notGame

OpsWorkerDelta ==
    /\ state_version < MaxOpsVersion
    /\ \E id \in OpsTypes, delta \in OpsDeltaArgs :
        \E out \in {apply_worker_delta(Game, id, delta)} :
           /\ SetGame(out.g)
           /\ last' = [op |-> "ops_worker_delta", id |-> id, delta |-> delta,
                       error |-> out.error, applied |-> out.applied,
                       pre |-> Before]
    /\ UNCHANGED notGame

OpsNext ==
    \/ OpsBuild
    \/ OpsDemolish
    \/ OpsToggle
    \/ OpsWorkerDelta

SpecOps == Init /\ [][OpsNext]_vars

\* ------------------------------------------------------------------------
\* Properties of construction and staffing (SpecOps)

\* the last call was `op` on a building of the collection as it was before
CalledOn(op) ==
    /\ last.op = op
    /\ last.id \in DOMAIN last.pre.buildings

\* the workers free and the room of the addressed building before the call
FreeBefore == available_workers(last.pre.buildings, POPULATION_INITIAL)
RoomBefore ==
    max_workers(last.pre.buildings[last.id])
        - last.pre.buildings[last.id].assigned_workers

\* the last call left the ledger, the buildings and the version untouched
NothingChanged ==
    /\ inventory = last.pre.inv
    /\ buildings = last.pre.buildings
    /\ building_ids = last.pre.ids
    /\ state_version = last.pre.version

\* C16: assign(building, requested) with requested > 0 applies
\* min(requested, available_workers, max_workers - assigned_workers): the
\* building's assigned_workers rises by exactly that and that is returned.
\* WorkerPool.assign_workers raises WorkerAllocationError and assigns
\* nobody when requested exceeds the workers free or the room.
AssignAppliesMin ==
    (CalledOn("ops_worker_delta") /\ last.delta > 0) =>
        /\ last.applied = Min(last.delta, Min(FreeBefore, RoomBefore))
        /\ buildings[last.id].assigned_workers
              = last.pre.buildings[last.id].assigned_workers
                    + Min(last.delta, Min(FreeBefore, RoomBefore))

\* C17: assign with requested > 0 while no worker is free or while the
\* building is at max_workers fails with WorkerAllocationError and leaves
\* the assigned_workers of every building and the state version unchanged.
AllocationFailureKeepsState ==
    (/\ CalledOn("ops_worker_delta")
     /\ last.delta > 0
     /\ (FreeBefore = 0 \/ RoomBefore <= 0)) =>
        /\ last.error = "WorkerAllocationError"
        /\ DOMAIN buildings = DOMAIN last.pre.buildings
        /\ \A id \in DOMAIN buildings :
              buildings[id].assigned_workers
                  = last.pre.buildings[id].assigned_workers
        /\ state_version = last.pre.version

\* rejected for lack of free workers on a building that has room
AllocationFailureWitness ==
    /\ CalledOn("ops_worker_delta")
    /\ last.delta > 0
    /\ FreeBefore = 0
    /\ RoomBefore > 0
    /\ last.error = "WorkerAllocationError"

\* the built count of type t in a building collection
BuiltOf(bs, t) == IF t \in DOMAIN bs THEN built_count(bs[t]) ELSE 0

\* C18: build(type) with a cost the ledger cannot fully cover fails with
\* InsufficientResourcesError carrying the requirement map and leaves the
\* ledger, the building collection, every built count and the state
\* version unchanged; on success exactly the cost is debited and the built
\* count of the type rises by exactly 1.
BuildAllOrNothing ==
    (last.op = "ops_build" /\ last.id \in BTypes) =>
        IF ~has(last.pre.inv, BUILD_COSTS[last.id])
        THEN /\ last.error = "InsufficientResourcesError"
             /\ last.requirements = BUILD_COSTS[last.id]
             /\ NothingChanged
        ELSE /\ last.error = "none"
             /\ \A r \in Res :
                   inventory.quantities[r]
                       = last.pre.inv.quantities[r] - Get(BUILD_COSTS[last.id], r)
             /\ BuiltOf(buildings, last.id)
                   = BuiltOf(last.pre.buildings, last.id) + 1
             /\ \A t \in DOMAIN buildings \ {last.id} :
                   BuiltOf(buildings, t) = BuiltOf(last.pre.buildings, t)

\* a build refused for its cost after a build that paid its cost
BuildRefusedWitness ==
    /\ last.op = "ops_build"
    /\ last.error = "InsufficientResourcesError"
    /\ BuiltOf(buildings, STICK_GATHERING_TENT) > 0
    /\ inventory.quantities["GOLD"] < STARTING_RESOURCES["GOLD"]

\* C19: demolish takes exactly 1 off built and never takes it below 0: on
\* a building with built = 0 it fails with NothingToDemolishError and
\* changes nothing; a building whose built reaches 0 becomes disabled.
DemolishDecrements ==
    /\ \A id \in DOMAIN buildings : buildings[id].built >= 0
    /\ CalledOn("ops_demolish") =>
          IF BuiltOf(last.pre.buildings, last.id) = 0
          THEN /\ last.error = "NothingToDemolishError"
               /\ NothingChanged
          ELSE /\ last.error = "none"
               /\ buildings[last.id].built
                     = last.pre.buildings[last.id].built - 1
               /\ buildings[last.id].built = 0 => ~buildings[last.id].enabled

\* a demolition refused on a building that demolition had emptied
NothingToDemolishWitness ==
    /\ CalledOn("ops_demolish")
    /\ last.error = "NothingToDemolishError"
    /\ buildings[last.id].built = 0
    /\ ~buildings[last.id].enabled

\* the last call named a type that does not exist (build) or an id that
\* names no building of the collection (demolish, toggle, worker delta)
CalledOnUnknown ==
    \/ last.op = "ops_build" /\ last.id \notin BTypes
    \/ /\ last.op \in {"ops_demolish", "ops_toggle", "ops_worker_delta"}
       /\ last.id \notin DOMAIN last.pre.buildings

\* C20: build with an unknown type, and demolish, toggle and worker delta
\* with an id that names no building of the collection, fail with an error
\* and change neither the ledger, the worker assignments, the building
\* collection nor the state version.
UnknownRejected ==
    CalledOnUnknown =>
        /\ last.error = "ValueError"
        /\ NothingChanged

\* a toggle refused for a known type of which nothing was ever built
UnknownRejectedWitness ==
    /\ last.op = "ops_toggle"
    /\ last.id \in BTypes
    /\ last.id \notin DOMAIN buildings
    /\ last.error = "ValueError"
    /\ DOMAIN buildings # {WOODCUTTER_CAMP}

\* C21: every successful build, demolish, toggle and worker delta that
\* changes the state strictly increases the state version.
\* GameState.toggle_building sets enabled (and status) and leaves
\* _state_version as it was.
StateVersionBumps ==
    (/\ last.op \in {"ops_build", "ops_demolish", "ops_toggle", "ops_worker_delta"}
     /\ last.error = "none"
     /\ (buildings # last.pre.buildings \/ inventory # last.pre.inv
            \/ building_ids # last.pre.ids)) =>
        state_version > last.pre.version

\* ------------------------------------------------------------------------
\* SpecConc: the tick driver of core/scheduler.py and one request handler
\* on the same GameState. build_building holds GameState._lock from its
\* first statement to its last; GameState.tick takes the lock only inside
\* _apply_wood_tick and for its tick counter, so its trade step runs
\* outside it. The tick is cut where Inventory.consume has read the gold it
\* is about to debit for an import (quantities.get) and has not yet stored
\* the difference; what the tick does before that point touches only the
\* season clock, which no request reads, and is counted with the second
\* step. The trade controls are used between ticks.

ConcBuildArgs == {STICK_GATHERING_TENT}
ConcDtArgs == {1}

\* the gold the tick of dt seconds starts by debiting for the import of r,
\* 0 when its first step is no import or the import pays nothing
ImportDebit(r, dt) ==
    LET wanted == (channels[r].rate_per_min * Scale * dt) \div 60
        available_gold == get_amount(inventory, "GOLD")
        short == (wanted * PriceTwice(r)) \div 2 > available_gold
        amount == IF short THEN (available_gold * 2) \div PriceTwice(r) ELSE wanted
    IN IF channels[r].mode = "import" /\ wanted > 0
       THEN (amount * PriceTwice(r)) \div 2 ELSE 0

ConcSetTradeMode ==
    /\ threads.tick = Idle
    /\ SetTradeMode

ConcSetTradeRate ==
    /\ threads.tick = Idle
    /\ SetTradeRate

\* the tick driver enters tick(dt) and reads the gold to debit
ConcTickBegin ==
    /\ threads.tick = Idle
    /\ tick_count < MaxTradeTicks
    /\ \E dt \in ConcDtArgs, r \in TradeArgs :
        /\ ImportDebit(r, dt) > 0
        /\ threads' = [threads EXCEPT !.tick =
                          [op |-> "paying", dt |-> dt,
                           gold |-> get_amount(inventory, "GOLD")]]
    /\ last' = [op |-> "tick_begin"]
    /\ UNCHANGED <<inventory, gameVars, reservation, building, save_file, graph_cache>>

\* the tick driver stores the gold it read less the cost and runs the rest
\* of the tick; its last statements wait for the lock
ConcTickFinish ==
    /\ threads.tick # Idle
    /\ threads.lock = "none"
    /\ \E g \in {game_tick([Game EXCEPT !.inv =
                               set_amount(inventory, "GOLD", threads.tick.gold)],
                           threads.tick.dt)} :
          SetGame(g)
    /\ threads' = [threads EXCEPT !.tick = Idle]
    /\ last' = [op |-> "tick_finish"]
    /\ UNCHANGED <<reservation, building, save_file, graph_cache>>

\* the request handler enters build_building and takes the lock
ConcBuildAcquire ==
    /\ threads.request = Idle
    /\ threads.lock = "none"
    /\ state_version < MaxOpsVersion
    /\ \E t \in ConcBuildArgs :
        /\ t \in DOMAIN buildings => built_count(buildings[t]) < MaxOpsBuilt
        /\ threads' = [threads EXCEPT !.lock = "request",
                                      !.request = [op |-> "build", id |-> t]]
    /\ last' = [op |-> "build_acquire"]
    /\ UNCHANGED <<inventory, gameVars, reservation, building, save_file, graph_cache>>

\* the request handler runs the body of build_building and releases the lock
ConcBuildRelease ==
    /\ threads.request # Idle
    /\ \E out \in {build_building(Game, threads.request.id)} :
          SetGame(out.g)
    /\ threads' = [threads EXCEPT !.lock = "none", !.request = Idle]
    /\ last' = [op |-> "build_release"]
    /\ UNCHANGED <<reservation, building, save_file, graph_cache>>

ConcNext ==
    \/ ConcSetTradeMode
    \/ ConcSetTradeRate
    \/ ConcTickBegin
    \/ ConcTickFinish
    \/ ConcBuildAcquire
    \/ ConcBuildRelease

SpecConc == Init /\ [][ConcNext]_vars

\* C22: tick, build, demolish, toggle and worker delta each run entirely
\* under the one lock of the GameState, so no update one of them makes to
\* the ledger is lost or overwritten by another. Here: the gold that has
\* left the ledger is the gold the tents built cost plus the price of the
\* planks imported. GameState.tick trades outside the lock (and
\* toggle_building takes no lock at all): a build that debits its cost
\* between the read and the store of the import's debit is overwritten.
NoLostUpdate ==
    2 * (STARTING_RESOURCES["GOLD"] - inventory.quantities["GOLD"])
        = 2 * BUILD_COSTS[STICK_GATHERING_TENT]["GOLD"]
              * BuiltOf(buildings, STICK_GATHERING_TENT)
          + PriceTwice("PLANK") * inventory.quantities["PLANK"]

\* ------------------------------------------------------------------------
\* Properties of the missing-input notifications (Spec)

\* the copies in queue q of the missing-input message of building type t
\* and resource r
Copies(q, t, r) ==
    Cardinality({i \in 1..Len(q) :
                    /\ Len(q[i]) = 4
                    /\ q[i][1] = "parado: falta"
                    /\ q[i][2] = t
                    /\ q[i][3] = r})

\* the last tick ended with building t reporting stalled/missing_input on r
ReportsMissing(t, r) ==
    /\ t \in DOMAIN last_production_reports
    /\ last_production_reports[t].status = "stalled"
    /\ last_production_reports[t].reason = "missing_input"
    /\ last_production_reports[t].detail = r

\* C23: while a building keeps reporting stalled/missing_input on r, the
\* queue holds at most one copy of the (building_type, r) message; at the
\* end of the first tick in which the building no longer reports it, the
\* message is no longer in the queue.
MissingInputNotified ==
    \A t \in BTypes, r \in Res :
        /\ Copies(notifications, t, r) <= 1
        /\ (last.op = "tick" /\ ~ReportsMissing(t, r)) =>
              Copies(notifications, t, r) = 0
        /\ (last.op = "tick" /\ ReportsMissing(t, r) /\ <<t, r>> \in last.missing) =>
              <<t, r>> \in DOMAIN active_missing_notifications

\* a tick that cleared the message of a hut that had been waiting for wood
MissingInputClearedWitness ==
    /\ last.op = "tick"
    /\ <<LUMBER_HUT, "WOOD">> \in last.missing
    /\ ~ReportsMissing(LUMBER_HUT, "WOOD")
    /\ Copies(notifications, LUMBER_HUT, "WOOD") = 0

\* a second stalled tick in a row with the one message still queued
MissingInputKeptWitness ==
    /\ last.op = "tick"
    /\ <<LUMBER_HUT, "WOOD">> \in last.missing
    /\ ReportsMissing(LUMBER_HUT, "WOOD")
    /\ Copies(notifications, LUMBER_HUT, "WOOD") = 1

\* ------------------------------------------------------------------------
\* SpecClock: the SeasonClock of a fresh GameState advanced by update(dt)

ClockDtArgs == {0, 1, 179, season_duration, 400, 4 * season_duration}

ClockUpdate ==
    /\ \E dt \in ClockDtArgs :
        /\ season_clock' = season_update(season_clock, dt)
        /\ last' = [op |-> "clock_update", dt |-> dt, old |-> season_clock]
    /\ UNCHANGED <<inventory, reservation, building, threads, save_file,
                   graph_cache, buildings,
                   building_ids, wood_state, channels, state_version, tick_count,
                   last_production_reports, notifications,
                   active_missing_notifications>>

ClockNext == ClockUpdate

SpecClock == Init /\ [][ClockNext]_vars

\* C24: update(dt) with dt > 0 advances by any number of seasons in one
\* call: afterwards current_index = (old_index + floor((old_elapsed + dt) /
\* season_duration)) mod number_of_seasons and 0 <= elapsed <
\* season_duration; advancing by number_of_seasons x season_duration comes
\* back to the starting season.
SeasonsAdvance ==
    (last.op = "clock_update" /\ last.dt > 0) =>
        /\ season_clock.current_index
              = (last.old.current_index
                    + (last.old.tick_within_season + last.dt) \div season_duration)
                 % Len(SEASON_NAMES)
        /\ season_clock.tick_within_season >= 0
        /\ season_clock.tick_within_season < season_duration
        /\ season_clock.tick_within_season
              = (last.old.tick_within_season + last.dt) % season_duration
        /\ last.dt = Len(SEASON_NAMES) * season_duration =>
              season_clock.current_index = last.old.current_index

\* one update that skipped more than one season
SeasonsSkippedWitness ==
    /\ last.op = "clock_update"
    /\ last.dt < Len(SEASON_NAMES) * season_duration
    /\ (last.old.tick_within_season + last.dt) \div season_duration >= 3
    /\ season_clock.current_index = (last.old.current_index + 3) % Len(SEASON_NAMES)

\* ------------------------------------------------------------------------
\* SpecModes: one building of either production mode (a lumber hut, discrete
\* cycles; a woodcutter camp, continuous per-worker rates with inputs)
\* ticked directly against an Inventory

ModeTypes == {LUMBER_HUT, WOODCUTTER_CAMP}
ModeDtArgs == {0, 1, 2, 8}
ModeMultArgs == {MulScale, 2 * MulScale}

\* the resource a building of the type credits, and the stock of it above
\* which the model stops ticking
ModeOutput(t) == IF t = LUMBER_HUT THEN "PLANK" ELSE "WOOD"
MaxOutput == 2
ModeOutputLimit(t) ==
    IF t = LUMBER_HUT THEN Units(MaxOutput)
    ELSE MaxOutput * 2 * BUILDING_RECIPES[t].per_worker_output_rate["WOOD"]

\* stocks handed to the building: resource and amount
ModeGrants(t) ==
    IF t = LUMBER_HUT
    THEN {<<"WOOD", Units(1)>>, <<"WOOD", Units(4)>>, <<"GOLD", 0>>,
          <<"GOLD", 3 * BUILDING_RECIPES[t].maintenance["GOLD"]>>,
          <<"PLANK", 0>>}
    ELSE {<<"STICKS", 0>>, <<"STICKS", Scale \div 20>>, <<"STICKS", Scale \div 10>>,
          <<"STONE", Scale \div 20>>, <<"STONE", Scale \div 10>>, <<"WOOD", 0>>}

\* capacities put on the output: room for one credit, hut and camp
ModeCapacity(t) ==
    IF t = LUMBER_HUT THEN Units(1)
    ELSE 2 * BUILDING_RECIPES[t].per_worker_output_rate["WOOD"]

ModeInit ==
    /\ inventory = NewInventory
    /\ reservation = NoToken
    /\ building \in {[build_from_config(t) EXCEPT !.built = 1] : t \in ModeTypes}
    /\ NoGame
    /\ last = NoOp

\* building.tick(dt, inventory, notify, modifiers)
ModeTick ==
    \E dt \in ModeDtArgs, mult \in ModeMultArgs :
        \E out \in {BuildingTick(building, dt, inventory, mult)} :
           /\ get_amount(inventory, ModeOutput(building.type_key))
                 <= ModeOutputLimit(building.type_key)
           /\ building' = out.b
           /\ inventory' = out.inv
           /\ last' = [op |-> "mode_tick", dt |-> dt, mult |-> mult,
                       pre |-> inventory, b |-> building, ret |-> out.report]
           /\ UNCHANGED notBld

\* building.assigned_workers = n
ModeSetWorkers ==
    \E n \in 0..recipe(building).max_workers :
        /\ n # building.assigned_workers
        /\ building' = [building EXCEPT !.assigned_workers = n]
        /\ last' = [op |-> "mode_set_workers"]
        /\ UNCHANGED <<inventory, notBld>>

\* inventory.set_amount(resource, amount)
ModeGrant ==
    \E g \in ModeGrants(building.type_key) :
        /\ inventory' = set_amount(inventory, g[1], g[2])
        /\ inventory' # inventory
        /\ last' = [op |-> "mode_grant"]
        /\ UNCHANGED <<building, notBld>>

\* inventory.set_capacity(output, capacity)
ModeSetCapacity ==
    /\ ~HasCapacity(inventory, ModeOutput(building.type_key))
    /\ inventory' = set_capacity(inventory, ModeOutput(building.type_key),
                                 ModeCapacity(building.type_key))
    /\ last' = [op |-> "mode_set_capacity"]
    /\ UNCHANGED <<building, notBld>>

ModeNext ==
    \/ ModeTick
    \/ ModeSetWorkers
    \/ ModeGrant
    \/ ModeSetCapacity

SpecModes == ModeInit /\ [][ModeNext]_vars

\* ------------------------------------------------------------------------
\* Properties of one tick in either mode

TickedIn(t) == last.op = "mode_tick" /\ last.b.type_key = t

Reported(status, reason) ==
    last.ret.status = status /\ last.ret.reason = reason

\* the ledger moved by exactly what the report says was consumed and produced
LedgerFollowsReport ==
    \A r \in Res :
        get_amount(inventory, r)
            = get_amount(last.pre, r) + Get(last.ret.produced, r)
                - Get(last.ret.consumed, r)

\* the tick found the building active and at least one discrete cycle due,
\* with the inputs and the maintenance of a cycle in stock
CycleDueAndFed ==
    /\ TickedIn(LUMBER_HUT)
    /\ inactive_reason(last.b) = "none"
    /\ RatePositive(last.b, last.b.assigned_workers, last.mult)
    /\ last.b.cycle_progress
          + ProgressGain(last.b, last.b.assigned_workers, last.mult, last.dt)
            >= cycle_time_sec(last.b)
    /\ has(last.pre, combine_resources(recipe(last.b).inputs,
                                       recipe(last.b).maintenance))

\* the workers the stock let a continuous tick use
WorkersFed ==
    limit_workers(1, recipe(last.b).per_worker_input_rate, last.pre,
                  last.mult, last.dt,
                  [effective_workers |-> Max(0, last.b.assigned_workers),
                   limiting_resource |-> "none"])

ContinuousFed ==
    /\ TickedIn(WOODCUTTER_CAMP)
    /\ inactive_reason(last.b) = "none"
    /\ last.mult > 0
    /\ WorkersFed.effective_workers > 0

ContinuousOutput ==
    Scaled(recipe(last.b).per_worker_output_rate, WorkersFed.effective_workers,
           last.mult, last.dt)

DiscreteNoCapacityWitness ==
    /\ CycleDueAndFed
    /\ Reported("stalled", "no_capacity")
    /\ Get(last.ret.produced, "PLANK") > 0

\* ------------------------------------------------------------------------
\* The read-only projections of GameState; each returns the GameState it
\* leaves behind, the error it raised and the mapping it built

\* _building_can_produce
building_can_produce(g, b, mult) ==
    IF inactive_reason(b) # "none" THEN inactive_reason(b)
    ELSE IF ~RatePositive(b, b.assigned_workers, mult) THEN "inactive"
    ELSE IF DOMAIN recipe(b).maintenance # {} /\ ~has(g.inv, recipe(b).maintenance)
    THEN "missing_maintenance"
    ELSE IF DOMAIN recipe(b).inputs # {} /\ ~has(g.inv, recipe(b).inputs)
    THEN "missing_input"
    ELSE IF DOMAIN recipe(b).outputs # {} /\ ~can_add(g.inv, recipe(b).outputs)
    THEN "no_capacity"
    ELSE "none"

\* _building_last_report
building_last_report(g, id) ==
    IF id \in DOMAIN g.reports THEN g.reports[id]
    ELSE g.buildings[id].production_report

\* _build_building_snapshot: Building.to_snapshot and the derived fields
build_building_snapshot(g, id) ==
    LET b == g.buildings[id]
        mult == get_production_modifiers(g.clock, b.type_key)
    IN [id |-> id, built |-> built_count(b), workers |-> b.assigned_workers,
        max_workers |-> max_workers(b), status |-> b.status,
        enabled |-> b.enabled, cycle_progress |-> b.cycle_progress,
        effective_rate |-> ProgressGain(b, b.assigned_workers, mult, 1),
        can_produce |-> building_can_produce(g, b, mult) = "none",
        reason |-> building_can_produce(g, b, mult),
        last_report |-> building_last_report(g, id)]

\* a projection that counts itself as a change of the state
snapshot_building_versioned(g, building_id) ==
    [g |-> [g EXCEPT !.version = @ + 1], error |-> "none",
     ret |-> IF building_id \in DOMAIN g.buildings
             THEN build_building_snapshot(g, building_id) ELSE EmptyDict]

\* GameState.snapshot_building(building_id)
snapshot_building(g, building_id) ==
    IF building_id \notin BTypes \/ building_id \notin DOMAIN g.buildings
    THEN [g |-> g, error |-> "ValueError", ret |-> EmptyDict]
    ELSE [g |-> g, error |-> "none", ret |-> build_building_snapshot(g, building_id)]

\* GameState.snapshot_buildings()
snapshot_buildings(g) ==
    [g |-> g, error |-> "none",
     ret |-> [id \in DOMAIN g.buildings |-> build_building_snapshot(g, id)]]

\* GameState.inventory_snapshot(): Inventory.snapshot()
inventory_snapshot(g) ==
    [g |-> g, error |-> "none",
     ret |-> [r \in Res |->
                [amount |-> get_amount(g.inv, r),
                 capacity |-> IF HasCapacity(g.inv, r)
                              THEN get_capacity(g.inv, r) ELSE 0 - 1]]]

\* GameState.snapshot_trade(): TradeManager.snapshot()
snapshot_trade(g) ==
    [g |-> g, error |-> "none",
     ret |-> [r \in DOMAIN g.channels |->
                [mode |-> g.channels[r].mode,
                 rate_per_min |-> g.channels[r].rate_per_min,
                 price_twice |-> PriceTwice(r),
                 estimate_per_min |->
                    IF g.channels[r].mode = "import" THEN g.channels[r].rate_per_min
                    ELSE IF g.channels[r].mode = "export"
                    THEN 0 - g.channels[r].rate_per_min
                    ELSE 0]]]

\* GameState.snapshot_state()
snapshot_state(g) ==
    [g |-> g, error |-> "none",
     ret |-> [season |-> [season_name |-> get_current_season(g.clock),
                          season_index |-> g.clock.current_index],
              buildings |-> snapshot_buildings(g).ret,
              inventory |-> inventory_snapshot(g).ret,
              trade |-> snapshot_trade(g).ret,
              notifications |-> g.notifications,
              version |-> g.version]]

\* ------------------------------------------------------------------------
\* SpecSnap: a GameState that is built on, staffed, traded on and ticked,
\* and read through its projections in between

SnapIdArgs == {LUMBER_HUT, UnknownType}
SnapshotOps == {"snapshot_building", "snapshot_buildings", "snapshot_state",
                "inventory_snapshot", "snapshot_trade"}

Projected(op, out) ==
    /\ SetGame(out.g)
    /\ last' = [op |-> op, error |-> out.error, ret |-> out.ret, pre |-> Game]
    /\ UNCHANGED notGame

SnapBuilding == \E id \in SnapIdArgs : Projected("snapshot_building", snapshot_building(Game, id))
SnapBuildings == Projected("snapshot_buildings", snapshot_buildings(Game))
SnapState == Projected("snapshot_state", snapshot_state(Game))
SnapInventory == Projected("inventory_snapshot", inventory_snapshot(Game))
SnapTrade == Projected("snapshot_trade", snapshot_trade(Game))

\* build_building and apply_worker_delta on the lumber hut
SnapBuild == OpsBuild /\ last'.id = LUMBER_HUT
SnapWorkerDelta == OpsWorkerDelta /\ last'.id = LUMBER_HUT

SnapNext ==
    \/ SnapBuild
    \/ SnapWorkerDelta
    \/ SetTradeMode
    \/ Tick
    \/ SnapBuilding
    \/ SnapBuildings
    \/ SnapState
    \/ SnapInventory
    \/ SnapTrade

SpecSnap == Init /\ [][SnapNext]_vars

\* C26: snapshot_building, snapshot_buildings, snapshot_state,
\* inventory_snapshot and snapshot_trade are read-only: the ledger, the
\* worker assignments, the buildings' fields (built, enabled,
\* cycle_progress, status), the trade channels, the season clock and the
\* state version are after the call what they were before it.
SnapshotsReadOnly ==
    last.op \in SnapshotOps =>
        /\ inventory = last.pre.inv
        /\ DOMAIN buildings = DOMAIN last.pre.buildings
        /\ \A id \in DOMAIN buildings :
              /\ buildings[id].assigned_workers = last.pre.buildings[id].assigned_workers
              /\ buildings[id].built = last.pre.buildings[id].built
              /\ buildings[id].enabled = last.pre.buildings[id].enabled
              /\ buildings[id].cycle_progress = last.pre.buildings[id].cycle_progress
              /\ buildings[id].status = last.pre.buildings[id].status
        /\ channels = last.pre.channels
        /\ season_clock = last.pre.clock
        /\ state_version = last.pre.version

\* a projection of a staffed lumber hut with progress banked, mid-season,
\* with a channel importing
SnapshotTakenWitness ==
    /\ last.op = "snapshot_building"
    /\ last.error = "none"
    /\ last.ret.id = LUMBER_HUT
    /\ last.ret.workers > 0
    /\ last.ret.cycle_progress > 0
    /\ season_clock.tick_within_season > 0
    /\ channels["PLANK"].mode = "import"

\* ------------------------------------------------------------------------
\* Persistence (core/persistence.py): the saved document and its loading

SAVE_VERSION == 1

\* Building.to_dict
to_dict(b, id) ==
    [id |-> id, type |-> b.type_key, enabled |-> b.enabled,
     built |-> built_count(b), assigned_workers |-> b.assigned_workers,
     cycle_progress |-> b.cycle_progress]

\* SeasonClock.export_state
export_state(c) ==
    [season_index |-> c.current_index,
     tick_within_season |-> c.tick_within_season,
     ticks_per_season |-> season_duration]

\* SeasonClock.load(dict)
clock_load(d) ==
    [current_index |-> d.season_index % Len(SEASON_NAMES),
     tick_within_season |->
        IF d.ticks_per_season > 0
        THEN Max(0, d.tick_within_season) % d.ticks_per_season
        ELSE 0]

\* Inventory.bulk_export
bulk_export(inv) == [quantities |-> inv.quantities, capacities |-> inv.capacities]

\* TradeManager.bulk_export
trade_bulk_export(chans) ==
    [r \in DOMAIN chans |-> [mode |-> chans[r].mode, rate |-> chans[r].rate_per_min]]

\* TradeManager.bulk_load
trade_bulk_load(chans, data) ==
    [r \in DOMAIN chans |->
        IF r \in DOMAIN data
        THEN [chans[r] EXCEPT !.mode = data[r].mode, !.rate_per_min = data[r].rate]
        ELSE chans[r]]

\* save_game: the document written to the path
save_game(g) ==
    [version |-> SAVE_VERSION,
     clock |-> export_state(g.clock),
     inventory |-> bulk_export(g.inv),
     workers |-> [total |-> POPULATION_INITIAL,
                  assignments |-> [id \in DOMAIN g.buildings |->
                                      g.buildings[id].assigned_workers]],
     buildings |-> [i \in 1..Len(g.ids) |-> to_dict(g.buildings[g.ids[i]], g.ids[i])],
     trade |-> trade_bulk_export(g.channels)]

\* the Building load_game makes of one entry of the document
load_entry(entry) ==
    LET fresh == build_from_config(entry.type)
        built == [fresh EXCEPT !.built = Max(0, entry.built),
                               !.enabled = entry.enabled /\ Max(0, entry.built) > 0,
                               !.cycle_progress = entry.cycle_progress]
    IN [built EXCEPT !.assigned_workers =
                        Max(0, Min(entry.assigned_workers, max_workers(built)))]

\* load_game: reset(), then the clock, the inventory, the buildings, the
\* assignments and the trade channels of the document
load_game(g, data) ==
    LET known == {i \in 1..Len(data.buildings) :
                     data.buildings[i].type \in DOMAIN BUILDING_RECIPES}
        entry_of(id) == data.buildings[CHOOSE i \in known : data.buildings[i].id = id]
        loaded == [id \in {data.buildings[i].id : i \in known} |->
                      load_entry(entry_of(id))]
        assigned == [id \in DOMAIN loaded |->
                        IF id \in DOMAIN data.workers.assignments
                        THEN set_assignment(loaded[id], data.workers.assignments[id])
                        ELSE loaded[id]]
        order == SelectSeq(data.buildings,
                           LAMBDA e : e.type \in DOMAIN BUILDING_RECIPES)
    IN IF data.version # SAVE_VERSION
       THEN [error |-> "ValueError", g |-> g]
       ELSE [error |-> "none",
             g |-> [InitialGame EXCEPT
                      !.clock = clock_load(data.clock),
                      !.inv = bulk_load(@, data.inventory.quantities,
                                        data.inventory.capacities),
                      !.buildings = assigned,
                      !.ids = [i \in 1..Len(order) |-> order[i].id],
                      !.channels = trade_bulk_load(@, data.trade)]]

\* ------------------------------------------------------------------------
\* SpecSave: a GameState with a lumber hut that is built, staffed, toggled,
\* demolished, ticked and traded on, saved to a document and loaded from it

MaxSaveVersion == 3
MaxSaveTicks == 1
MaxSaveBuilt == 1
MaxSaveSeason == 1

SaveIdArgs == {LUMBER_HUT}
SaveDeltaArgs == {0 - 1, 1}
SaveDtArgs == {90}
SaveStockArgs == {0, Units(1)}
SaveModeArgs == {"pause", "export"}

SaveBuild ==
    /\ state_version < MaxSaveVersion
    /\ \E t \in SaveIdArgs :
        /\ t \in DOMAIN buildings => built_count(buildings[t]) < MaxSaveBuilt
        /\ \E out \in {build_building(Game, t)} :
              /\ SetGame(out.g)
              /\ last' = [op |-> "build", error |-> out.error]
    /\ UNCHANGED notGame

SaveDemolish ==
    /\ state_version < MaxSaveVersion
    /\ \E id \in SaveIdArgs :
        /\ id \in DOMAIN buildings
        /\ \E out \in {demolish_building(Game, id)} :
              /\ SetGame(out.g)
              /\ last' = [op |-> "demolish", error |-> out.error]
    /\ UNCHANGED notGame

SaveToggle ==
    /\ \E id \in SaveIdArgs, enabled \in BOOLEAN :
        /\ id \in DOMAIN buildings
        /\ buildings[id].enabled # enabled
        /\ \E out \in {toggle_building(Game, id, enabled)} :
              /\ SetGame(out.g)
              /\ last' = [op |-> "toggle", error |-> out.error]
    /\ UNCHANGED notGame

SaveWorkerDelta ==
    /\ state_version < MaxSaveVersion
    /\ \E id \in SaveIdArgs, delta \in SaveDeltaArgs :
        /\ id \in DOMAIN buildings
        /\ \E out \in {apply_worker_delta(Game, id, delta)} :
              /\ SetGame(out.g)
              /\ last' = [op |-> "worker_delta", error |-> out.error]
    /\ UNCHANGED notGame

\* state.inventory.set_amount(resource, amount) between save and load
SaveSetStock ==
    /\ \E amount \in SaveStockArgs :
        /\ inventory' = set_amount(inventory, "PLANK", amount)
        /\ inventory' # inventory
    /\ last' = [op |-> "set_amount"]
    /\ UNCHANGED <<gameVars, notGame>>

SaveTick ==
    /\ tick_count < MaxSaveTicks
    /\ season_clock.current_index < MaxSaveSeason
    /\ \E dt \in SaveDtArgs :
        \E g \in {game_tick(Game, dt)} :
           /\ SetGame(g)
           /\ last' = [op |-> "tick"]
    /\ UNCHANGED notGame

\* ui_bridge.set_trade_mode(resource_key, mode)
SaveSetMode ==
    /\ \E r \in TradeArgs, mode \in SaveModeArgs :
        /\ channels[r].mode # mode
        /\ channels' = [channels EXCEPT ![r].mode = mode]
    /\ last' = [op |-> "set_trade_mode"]
    /\ UNCHANGED <<inventory, buildings, building_ids, wood_state, season_clock,
                   state_version, tick_count, last_production_reports,
                   notifications, active_missing_notifications, notGame>>

\* ui_bridge.save_game(path)
SaveGame ==
    /\ save_file' = save_game(Game)
    /\ last' = [op |-> "save_game"]
    /\ UNCHANGED <<inventory, gameVars, reservation, building, threads,
                   graph_cache>>

\* ui_bridge.load_game(path), the document written before
LoadGame ==
    /\ save_file # NoSave
    /\ \E out \in {load_game(Game, save_file)} :
          /\ SetGame(out.g)
          /\ last' = [op |-> "load_game", error |-> out.error]
    /\ UNCHANGED notGame

SaveNext ==
    \/ SaveBuild
    \/ SaveDemolish
    \/ SaveToggle
    \/ SaveWorkerDelta
    \/ SaveSetStock
    \/ SaveTick
    \/ SaveSetMode
    \/ SaveGame
    \/ LoadGame

SpecSave == Init /\ [][SaveNext]_vars

\* the fields a saved game is to bring back, of a GameState
SavedFields(g) ==
    [quantities |-> g.inv.quantities,
     capacities |-> g.inv.capacities,
     total |-> POPULATION_INITIAL,
     buildings |-> [id \in DOMAIN g.buildings |->
                      [built |-> g.buildings[id].built,
                       enabled |-> g.buildings[id].enabled,
                       assigned_workers |-> g.buildings[id].assigned_workers,
                       cycle_progress |-> g.buildings[id].cycle_progress]],
     trade |-> [r \in DOMAIN g.channels |->
                  [mode |-> g.channels[r].mode,
                   rate |-> g.channels[r].rate_per_min, price |-> PriceTwice(r)]],
     season_index |-> g.clock.current_index,
     offset |-> g.clock.tick_within_season]

\* the same fields as the document holds them
DocumentFields(d) ==
    [quantities |-> d.inventory.quantities,
     capacities |-> d.inventory.capacities,
     total |-> d.workers.total,
     buildings |-> [id \in {d.buildings[i].id : i \in 1..Len(d.buildings)} |->
                      LET e == d.buildings[CHOOSE i \in 1..Len(d.buildings) :
                                              d.buildings[i].id = id]
                      IN [built |-> e.built, enabled |-> e.enabled,
                          assigned_workers |-> d.workers.assignments[id],
                          cycle_progress |-> e.cycle_progress]],
     trade |-> [r \in DOMAIN d.trade |->
                  [mode |-> d.trade[r].mode, rate |-> d.trade[r].rate,
                   price |-> PriceTwice(r)]],
     season_index |-> d.clock.season_index,
     offset |-> d.clock.tick_within_season]

\* C27: save/load round trip: the saved document holds the ledger's
\* quantities and capacities, the worker total and assignments, every
\* building's built, enabled, assigned_workers and cycle_progress, the trade
\* channels and the season index and offset of the state it was written
\* from, and the state after loading it is equal to the document on all of
\* those fields, whatever happened to the live state in between.
SaveLoadRoundTrip ==
    /\ last.op = "save_game" => DocumentFields(save_file) = SavedFields(Game)
    /\ (last.op = "load_game" /\ last.error = "none") =>
            SavedFields(Game) = DocumentFields(save_file)

\* the round trip of every state whose buildings with nothing built are
\* disabled
SaveLoadRoundTripOfBuilt ==
    /\ last.op = "save_game" => DocumentFields(save_file) = SavedFields(Game)
    /\ (/\ last.op = "load_game"
        /\ last.error = "none"
        /\ \A i \in 1..Len(save_file.buildings) :
              save_file.buildings[i].built > 0 \/ ~save_file.buildings[i].enabled) =>
            SavedFields(Game) = DocumentFields(save_file)

\* a load that brought back a state the live state had moved away from
LoadedOverChangesWitness ==
    /\ last.op = "load_game"
    /\ last.error = "none"
    /\ LUMBER_HUT \in DOMAIN buildings
    /\ buildings[LUMBER_HUT].assigned_workers > 0
    /\ buildings[LUMBER_HUT].cycle_progress > 0
    /\ season_clock.tick_within_season > 0
    /\ channels["PLANK"].mode = "export"

\* ------------------------------------------------------------------------
\* Continuous mode under short supply

CampRecipe == BUILDING_RECIPES[WOODCUTTER_CAMP]

\* what one worker takes of r in the last tick: rate x modifier x dt
NeedPerWorker(r) == (CampRecipe.per_worker_input_rate[r] * last.mult * last.dt) \div MulScale

\* the workers the stock of r before the tick pays for
Sustained(r) == get_amount(last.pre, r) \div NeedPerWorker(r)

\* min(assigned_workers, min over the inputs of floor(available / need))
EffectiveWorkers ==
    LET counts == {last.b.assigned_workers}
                    \cup {Sustained(r) : r \in DOMAIN CampRecipe.per_worker_input_rate}
    IN CHOOSE m \in counts : \A x \in counts : m <= x

\* the last operation ticked a staffed, enabled camp over some time
StaffedContinuousTick ==
    /\ TickedIn(WOODCUTTER_CAMP)
    /\ inactive_reason(last.b) = "none"
    /\ last.mult > 0
    /\ last.dt > 0

ContinuousStalledWitness ==
    /\ StaffedContinuousTick
    /\ Sustained("STICKS") >= 1
    /\ Reported("stalled", "missing_input")
    /\ last.ret.detail = "STONE"

\* C31: a continuous-mode tick that reports stalled/no_capacity leaves
\* every ledger amount, inputs and outputs, exactly as before the tick: the
\* reserved inputs are given back and no part of the output is credited.
ContinuousNoCapacityKeepsLedger ==
    (TickedIn(WOODCUTTER_CAMP) /\ Reported("stalled", "no_capacity")) =>
        /\ \A r \in Res : get_amount(inventory, r) = get_amount(last.pre, r)
        /\ inventory.capacities = last.pre.capacities
        /\ last.ret.consumed = EmptyDict
        /\ last.ret.produced = EmptyDict

\* the camp had both inputs for its workers reserved and room for only a
\* part of the output
ContinuousRolledBackWitness ==
    /\ StaffedContinuousTick
    /\ Reported("stalled", "no_capacity")
    /\ EffectiveWorkers >= 1
    /\ get_amount(inventory, "STICKS") >= NeedPerWorker("STICKS")
    /\ get_amount(inventory, "STONE") >= NeedPerWorker("STONE")
    /\ HasCapacity(inventory, "WOOD")
    /\ get_amount(inventory, "WOOD") < get_capacity(inventory, "WOOD")


\* ------------------------------------------------------------------------
\* The order of the steps of one GameState.tick (SpecOrder): a lumber hut
\* that is built and staffed, a WOOD channel that imports, and ticks that
\* carry the clock from one season into the next

MaxOrderTicks == 3

MaxOrderVersion == 6

OrderDtArgs == {2, 269}

OrderRateArgs == {0, 120}

OrderModeArgs == {"pause", "import"}

OrderBuild ==
    /\ state_version < MaxOrderVersion
    /\ LUMBER_HUT \notin DOMAIN buildings
    /\ \E out \in {build_building(Game, LUMBER_HUT)} :
          /\ SetGame(out.g)
          /\ last' = [op |-> "build", error |-> out.error]
    /\ UNCHANGED notGame

OrderWorkerDelta ==
    /\ state_version < MaxOrderVersion
    /\ \E delta \in {0 - 1, 1} :
        \E out \in {apply_worker_delta(Game, LUMBER_HUT, delta)} :
           /\ SetGame(out.g)
           /\ last' = [op |-> "worker_delta", error |-> out.error,
                       applied |-> out.applied]
    /\ UNCHANGED notGame

\* ui_bridge.set_trade_mode("WOOD", mode)
OrderSetMode ==
    /\ \E mode \in OrderModeArgs :
        /\ channels' = [channels EXCEPT !["WOOD"].mode = mode]
        /\ last' = [op |-> "set_trade_mode", res |-> "WOOD", mode |-> mode]
    /\ UNCHANGED <<inventory, buildings, building_ids, wood_state, season_clock,
                   state_version, tick_count, last_production_reports,
                   notifications, active_missing_notifications, notGame>>

\* ui_bridge.set_trade_rate("WOOD", rate)
OrderSetRate ==
    /\ \E rate \in OrderRateArgs :
        /\ channels' = [channels EXCEPT !["WOOD"].rate_per_min = Max(0, rate)]
        /\ last' = [op |-> "set_trade_rate", res |-> "WOOD", rate |-> rate]
    /\ UNCHANGED <<inventory, buildings, building_ids, wood_state, season_clock,
                   state_version, tick_count, last_production_reports,
                   notifications, active_missing_notifications, notGame>>

\* GameState.tick(dt), remembering the whole game before it
OrderTick ==
    /\ state_version < MaxOrderVersion
    /\ tick_count < MaxOrderTicks
    /\ \E dt \in OrderDtArgs :
        \E g \in {game_tick(Game, dt)} :
           /\ SetGame(g)
           /\ last' = [op |-> "order_tick", dt |-> dt,
                       pre |-> [buildings |-> buildings, inv |-> inventory,
                                clock |-> season_clock, channels |-> channels]]
    /\ UNCHANGED notGame

OrderNext ==
    \/ OrderBuild
    \/ OrderWorkerDelta
    \/ OrderSetMode
    \/ OrderSetRate
    \/ OrderTick

SpecOrder == Init /\ [][OrderNext]_vars

\* the clock dt seconds after the one the last tick started from
ClockAfter ==
    [current_index |->
        (last.pre.clock.current_index
            + (last.pre.clock.tick_within_season + last.dt) \div season_duration)
          % Len(SEASON_NAMES),
     tick_within_season |->
        (last.pre.clock.tick_within_season + last.dt) % season_duration]

\* the last tick found a built, enabled and staffed lumber hut
HutStaffed ==
    /\ last.op = "order_tick"
    /\ LUMBER_HUT \in DOMAIN last.pre.buildings
    /\ last.pre.buildings[LUMBER_HUT].built >= 1
    /\ last.pre.buildings[LUMBER_HUT].enabled
    /\ last.pre.buildings[LUMBER_HUT].assigned_workers >= 1

\* the hut's progress at the end of the last tick's dt, at the rate of the
\* season the clock is in after the tick
HutProgressAfter ==
    last.pre.buildings[LUMBER_HUT].cycle_progress
        + ProgressGain(last.pre.buildings[LUMBER_HUT],
                       last.pre.buildings[LUMBER_HUT].assigned_workers,
                       get_production_modifiers(ClockAfter, LUMBER_HUT), last.dt)

\* what the WOOD channel asks for in the last tick
WoodWanted ==
    IF last.pre.channels["WOOD"].mode = "import"
    THEN (last.pre.channels["WOOD"].rate_per_min * Scale * last.dt) \div 60
    ELSE 0

\* the last tick started without the wood of one cycle, and its WOOD import
\* of at least that much was affordable and had room
WoodOnlyFromImport ==
    /\ HutStaffed
    /\ HutProgressAfter >= cycle_time_sec(last.pre.buildings[LUMBER_HUT])
    /\ get_amount(last.pre.inv, "WOOD") < HutRecipe.inputs["WOOD"]
    /\ WoodWanted >= HutRecipe.inputs["WOOD"]
    /\ get_amount(last.pre.inv, "WOOD") + WoodWanted
          <= get_capacity(last.pre.inv, "WOOD")
    /\ get_amount(last.pre.inv, "GOLD")
          >= (WoodWanted * PriceTwice("WOOD")) \div 2
               + HutRecipe.maintenance["GOLD"]

\* C32: one GameState.tick advances the season clock, then ticks the trade
\* channels, then the buildings, then reconciles the missing-input
\* notifications: after the tick the clock stands dt seconds later; a
\* staffed hut gained its progress at the rate of the season the clock is in
\* after the tick; a hut with a cycle due and no wood but what the tick's own
\* import brings produces PLANK in that tick; and the active missing-input
\* keys are exactly those the tick's reports name.
TickStepsInOrder ==
    last.op = "order_tick" =>
        /\ season_clock = ClockAfter
        /\ (HutStaffed
              /\ HutProgressAfter < cycle_time_sec(last.pre.buildings[LUMBER_HUT]))
             => buildings[LUMBER_HUT].cycle_progress = HutProgressAfter
        /\ WoodOnlyFromImport =>
              /\ last_production_reports[LUMBER_HUT].status = "produced"
              /\ Get(last_production_reports[LUMBER_HUT].produced, "PLANK") >= Units(1)
              /\ get_amount(inventory, "PLANK") > get_amount(last.pre.inv, "PLANK")
        /\ DOMAIN active_missing_notifications
              = {k \in BTypes \X Res : ReportsMissing(k[1], k[2])}

\* a tick that crossed into Winter and gave the hut the Winter rate
SeasonCrossedWitness ==
    /\ HutStaffed
    /\ get_current_season(last.pre.clock) # "Winter"
    /\ get_current_season(season_clock) = "Winter"
    /\ HutProgressAfter < cycle_time_sec(last.pre.buildings[LUMBER_HUT])
    /\ buildings[LUMBER_HUT].cycle_progress
          > last.pre.buildings[LUMBER_HUT].cycle_progress
              + ProgressGain(last.pre.buildings[LUMBER_HUT],
                             last.pre.buildings[LUMBER_HUT].assigned_workers,
                             MulScale, last.dt)

\* a tick in which the hut sawed the wood imported in that same tick
ImportedThenSawnWitness ==
    /\ WoodOnlyFromImport
    /\ last_production_reports[LUMBER_HUT].status = "produced"
    /\ get_amount(inventory, "PLANK") > get_amount(last.pre.inv, "PLANK")


\* ------------------------------------------------------------------------
\* Ticks of a building that may be unbuilt, disabled or unstaffed (SpecIdle):
\* the actions of SpecModes, and the changes build, demolish and toggle make
\* to the fields of one Building

\* build_building: building.built = building.built_count + 1; enabled = True
IdleBuild ==
    /\ built_count(building) < 1
    /\ building' = [building EXCEPT !.built = built_count(building) + 1,
                                    !.enabled = TRUE]
    /\ last' = [op |-> "idle_build"]
    /\ UNCHANGED <<inventory, notBld>>

\* demolish_building: building.built = built_count - 1, disabled at zero,
\* workers cut back to the new maximum
IdleDemolish ==
    /\ built_count(building) > 0
    /\ \E b \in {[building EXCEPT !.built = built_count(building) - 1,
                                  !.enabled = IF built_count(building) - 1 <= 0
                                              THEN FALSE ELSE @]} :
          building' = [b EXCEPT !.assigned_workers = Min(@, max_workers(b))]
    /\ last' = [op |-> "idle_demolish"]
    /\ UNCHANGED <<inventory, notBld>>

\* toggle_building: building.enabled = enabled
IdleToggle ==
    /\ \E enabled \in BOOLEAN :
          /\ enabled # building.enabled
          /\ building' = [building EXCEPT !.enabled = enabled]
    /\ last' = [op |-> "idle_toggle"]
    /\ UNCHANGED <<inventory, notBld>>

\* building.tick(dt, inventory, notify, modifiers) outside Winter
IdleTick == ModeTick /\ last'.mult = MulScale

IdleNext ==
    \/ IdleTick
    \/ ModeSetWorkers
    \/ ModeGrant
    \/ ModeSetCapacity
    \/ IdleBuild
    \/ IdleDemolish
    \/ IdleToggle

SpecIdle == ModeInit /\ [][IdleNext]_vars

\* the building the last tick found was unbuilt, disabled or unstaffed
FoundIdle ==
    /\ last.op = "mode_tick"
    /\ \/ last.b.built = 0
       \/ ~last.b.enabled
       \/ last.b.assigned_workers <= 0

\* the progress a discrete building has after the dt of the last tick
ProgressAfter ==
    last.b.cycle_progress
        + ProgressGain(last.b, last.b.assigned_workers, last.mult, last.dt)

\* the last tick found a built, enabled, staffed lumber hut with no cycle due
FoundShortOfCycle ==
    /\ TickedIn(LUMBER_HUT)
    /\ ~FoundIdle
    /\ ProgressAfter < cycle_time_sec(last.b)

\* the last tick left every amount and capacity of the ledger alone
LedgerUntouched ==
    /\ \A r \in Res : get_amount(inventory, r) = get_amount(last.pre, r)
    /\ inventory.capacities = last.pre.capacities

\* C33: a tick of a building that is unbuilt, disabled or unstaffed reports
\* inactive, changes no ledger amount and leaves cycle_progress at 0; a tick
\* of a built, enabled, staffed discrete building whose progress stays below
\* cycle_time reports inactive and changes no ledger amount, and the
\* building keeps the progress it has accumulated.
IdleTickKeepsLedger ==
    /\ FoundIdle =>
          /\ last.ret.status = "inactive"
          /\ last.ret.consumed = EmptyDict
          /\ last.ret.produced = EmptyDict
          /\ LedgerUntouched
          /\ building.cycle_progress = 0
    /\ FoundShortOfCycle =>
          /\ last.ret.status = "inactive"
          /\ LedgerUntouched
          /\ building.cycle_progress = ProgressAfter
          /\ last.dt > 0 => building.cycle_progress > last.b.cycle_progress

\* a tick that threw away the progress of a hut that had lost its workers,
\* while the stock held what a cycle needs
IdleResetWitness ==
    /\ FoundIdle
    /\ last.b.cycle_progress > 0
    /\ last.dt > 0
    /\ has(last.pre, HutCycleNeeds)
    /\ building.cycle_progress = 0

\* a tick of an unbuilt but enabled hut
UnbuiltTickWitness ==
    /\ FoundIdle
    /\ last.b.built = 0
    /\ last.b.enabled
    /\ last.ret.status = "inactive"

\* a tick that added to banked progress without reaching the cycle time
ProgressKeptWitness ==
    /\ FoundShortOfCycle
    /\ last.b.cycle_progress > 0
    /\ building.cycle_progress > last.b.cycle_progress


\* ------------------------------------------------------------------------
\* The rate of a discrete building through the seasons (SpecRate): a lumber
\* hut ticked with the modifiers the season clock returns for it, or with a
\* modifier of zero

RateDtArgs == {0, 1, 2}

RateInit ==
    /\ inventory = NewInventory
    /\ reservation = NoToken
    /\ building = [build_from_config(LUMBER_HUT) EXCEPT !.built = 1]
    /\ NoGame
    /\ last = NoOp

\* season_clock.update(season_duration): on to the next season
RateSeason ==
    /\ season_clock' = season_update(season_clock, season_duration)
    /\ last' = [op |-> "rate_season"]
    /\ UNCHANGED <<inventory, reservation, building, buildings, building_ids,
                   wood_state, channels, state_version, tick_count,
                   last_production_reports, notifications,
                   active_missing_notifications, threads, save_file, graph_cache>>

\* building.tick(dt, inventory, notify, modifiers), modifiers being
\* season_clock.get_modifiers(building.type_key) or the number 0.0
RateTick ==
    /\ get_amount(inventory, "PLANK") <= Units(MaxOutput)
    /\ \E dt \in RateDtArgs,
          mult \in {get_production_modifiers(season_clock, building.type_key), 0} :
        \E out \in {BuildingTick(building, dt, inventory, mult)} :
           /\ building' = out.b
           /\ inventory' = out.inv
           /\ last' = [op |-> "rate_tick", dt |-> dt, mult |-> mult,
                       season |-> get_current_season(season_clock),
                       pre |-> inventory, b |-> building, ret |-> out.report]
    /\ UNCHANGED <<reservation, gameVars, threads, save_file, graph_cache>>

\* building.assigned_workers = n
RateSetWorkers ==
    /\ \E n \in 0..recipe(building).max_workers :
        /\ n # building.assigned_workers
        /\ building' = [building EXCEPT !.assigned_workers = n]
    /\ last' = [op |-> "rate_set_workers"]
    /\ UNCHANGED <<inventory, reservation, gameVars, threads, save_file, graph_cache>>

\* inventory.set_amount(WOOD, 4), inventory.set_amount(GOLD, 1)
RateGrant ==
    /\ \E g \in {<<"WOOD", Units(4)>>, <<"GOLD", Units(1)>>} :
          inventory' = set_amount(inventory, g[1], g[2])
    /\ inventory' # inventory
    /\ last' = [op |-> "rate_grant"]
    /\ UNCHANGED <<building, reservation, gameVars, threads, save_file, graph_cache>>

RateNext ==
    \/ RateSeason
    \/ RateTick
    \/ RateSetWorkers
    \/ RateGrant

SpecRate == RateInit /\ [][RateNext]_vars

\* clamp(workers / max_workers, 0, 1) * m * dt seconds of progress for the
\* hut of the last tick, m in 1/MulScale
SeasonalGain(m) ==
    (last.dt * PScale
        * Min(HutRecipe.max_workers, Max(0, last.b.assigned_workers)) * m)
      \div (HutRecipe.max_workers * MulScale)

\* the product of the modifiers {global, lumber_hut} of a season
SeasonProduct(season) ==
    (SEASON_MODIFIERS(season, "global") * SEASON_MODIFIERS(season, LUMBER_HUT))
        \div MulScale

\* the last tick was one of a staffed hut
RateTicked == last.op = "rate_tick" /\ last.b.assigned_workers >= 1

\* C34: the rate of a discrete building is clamp(workers / max_workers, 0, 1)
\* times the product of the season's modifiers for its type; a tick adds
\* dt x rate to the progress, so the same building with the same workers
\* gains strictly less in a season with a smaller modifier; a rate <= 0
\* makes the tick inactive.
RateFollowsSeason ==
    RateTicked =>
        /\ last.mult \in {0, SeasonProduct(last.season)}
        /\ last.mult <= 0 =>
              /\ last.ret.status = "inactive"
              /\ last.ret.reason = "inactive"
              /\ building.cycle_progress = 0
              /\ inventory = last.pre
        /\ (last.mult > 0
              /\ last.b.cycle_progress + SeasonalGain(last.mult)
                    < HutRecipe.cycle_time * PScale) =>
              /\ building.cycle_progress
                    = last.b.cycle_progress + SeasonalGain(last.mult)
              /\ last.ret.status = "inactive"
        /\ (last.mult > 0 /\ last.ret.status = "produced") =>
              building.cycle_progress
                  = (last.b.cycle_progress + SeasonalGain(last.mult))
                       % (HutRecipe.cycle_time * PScale)
        /\ \A s1, s2 \in Range(SEASON_NAMES) :
              (last.dt > 0 /\ SeasonProduct(s1) < SeasonProduct(s2)) =>
                  SeasonalGain(SeasonProduct(s1)) < SeasonalGain(SeasonProduct(s2))

\* a Winter tick that gave the hut more progress than the same tick gives
\* in the other seasons
WinterGainWitness ==
    /\ RateTicked
    /\ last.season = "Winter"
    /\ last.mult > MulScale
    /\ last.dt > 0
    /\ building.cycle_progress
          = last.b.cycle_progress + SeasonalGain(last.mult)
    /\ building.cycle_progress
          > last.b.cycle_progress + SeasonalGain(SeasonProduct("Summer"))

\* a tick of a staffed hut that a modifier of zero made inactive
ZeroRateWitness ==
    /\ RateTicked
    /\ last.mult = 0
    /\ last.b.cycle_progress > 0
    /\ last.ret.status = "inactive"


\* ------------------------------------------------------------------------
\* The woodcutter camp through GameState.tick (SpecWood): camps built and
\* demolished, workers assigned to them, sticks and stone in stock, and
\* ticks short and long enough to fill the camps

MaxCamps == 2

MaxWoodTicks == 3

MaxWoodVersion == 9

WoodDtArgs == {0, 20, 300}

WoodBuild ==
    /\ state_version < MaxWoodVersion
    /\ built_count(buildings[WOODCUTTER_CAMP]) < MaxCamps
    /\ \E out \in {build_building(Game, WOODCUTTER_CAMP)} :
          /\ SetGame(out.g)
          /\ last' = [op |-> "build", error |-> out.error]
    /\ UNCHANGED notGame

WoodDemolish ==
    /\ state_version < MaxWoodVersion
    /\ \E out \in {demolish_building(Game, WOODCUTTER_CAMP)} :
          /\ SetGame(out.g)
          /\ last' = [op |-> "demolish", error |-> out.error]
    /\ UNCHANGED notGame

WoodAssign ==
    /\ state_version < MaxWoodVersion
    /\ \E n \in 0..(2 * MaxCamps) :
        \E g \in {assign_workers_to_woodcutter(Game, n)} :
           /\ SetGame(g)
           /\ last' = [op |-> "assign_woodcutter"]
    /\ UNCHANGED notGame

\* inventory.set_amount(STICKS, 1), inventory.set_amount(STONE, 1)
WoodGrantInputs ==
    /\ get_amount(inventory, "STICKS") = 0
    /\ inventory' = set_amount(set_amount(inventory, "STICKS", Units(1)),
                               "STONE", Units(1))
    /\ last' = [op |-> "grant_inputs"]
    /\ UNCHANGED <<buildings, building_ids, wood_state, season_clock, channels,
                   state_version, tick_count, last_production_reports,
                   notifications, active_missing_notifications, notGame>>

\* GameState.tick(dt), remembering the ledger and the camp before it
WoodTick ==
    /\ state_version < MaxWoodVersion
    /\ tick_count < MaxWoodTicks
    /\ \E dt \in WoodDtArgs :
        \E g \in {game_tick(Game, dt)} :
           /\ SetGame(g)
           /\ last' = [op |-> "wood_tick", dt |-> dt, pre |-> inventory,
                       camp |-> buildings[WOODCUTTER_CAMP]]
    /\ UNCHANGED notGame

WoodNext ==
    \/ WoodBuild
    \/ WoodDemolish
    \/ WoodAssign
    \/ WoodGrantInputs
    \/ WoodTick

SpecWood == Init /\ [][WoodNext]_vars

\* what the camps of the last tick can hold
CampsHold == Units(50) * built_count(last.camp)

\* 0.1 x workers x dt of wood
WoodPotential == (last.camp.assigned_workers * last.dt * Scale) \div 10

WoodCreditedWitness ==
    /\ last.op = "wood_tick"
    /\ last.camp.assigned_workers = 2
    /\ WoodPotential > 0
    /\ get_amount(inventory, "WOOD") = get_amount(last.pre, "WOOD") + WoodPotential

\* a tick of some seconds with no worker on the camp
WoodIdleWitness ==
    /\ last.op = "wood_tick"
    /\ last.dt > 0
    /\ last.camp.assigned_workers = 0
    /\ built_count(last.camp) >= 1
    /\ get_amount(last.pre, "WOOD") > 0


\* ------------------------------------------------------------------------
\* The tick scheduler (core/scheduler.py, SpecSched): request threads that
\* call ensure_tick_loop, and the loop threads it starts. `threads` holds
\* the module's _loop_lock and _loop_thread (0 for None), the number of
\* threads started so far, those alive, those inside state.tick, and the
\* position of every caller

Callers == {"c1", "c2"}

MaxLoopThreads == 3

MaxSchedTicks == 2

\* the module as imported: no thread, the lock free
NoLoop ==
    [loop_lock |-> "none", loop_thread |-> 0, started |-> 0, alive |-> {},
     ticking |-> {}, pc |-> [c \in Callers |-> "idle"]]

SchedInit ==
    /\ \E g \in {InitialGame} :
        /\ buildings = g.buildings
        /\ building_ids = g.ids
        /\ inventory = g.inv
        /\ wood_state = g.wood
        /\ season_clock = g.clock
        /\ channels = g.channels
        /\ state_version = g.version
        /\ tick_count = g.ticks
        /\ last_production_reports = g.reports
        /\ notifications = g.notifications
        /\ active_missing_notifications = g.active
    /\ reservation = NoToken
    /\ building = build_from_config(LUMBER_HUT)
    /\ threads = NoLoop
    /\ save_file = NoSave
    /\ graph_cache = NoGraph
    /\ last = NoOp

\* a check that never finds the loop thread
loop_running_never(th) == FALSE

\* _loop_thread and _loop_thread.is_alive()
loop_running(th) == th.loop_thread # 0 /\ th.loop_thread \in th.alive

\* with _loop_lock: a caller enters ensure_tick_loop and takes the lock
EnsureAcquire ==
    /\ \E c \in Callers :
        /\ threads.pc[c] = "idle"
        /\ threads.loop_lock = "none"
        /\ threads' = [threads EXCEPT !.loop_lock = c, !.pc[c] = "locked"]
        /\ last' = [op |-> "ensure_acquire", caller |-> c]
    /\ UNCHANGED <<inventory, gameVars, reservation, building, save_file, graph_cache>>

\* if _loop_thread and _loop_thread.is_alive(): return (the lock released)
EnsureFound ==
    /\ \E c \in Callers :
        /\ threads.pc[c] = "locked"
        /\ loop_running(threads)
        /\ threads' = [threads EXCEPT !.loop_lock = "none", !.pc[c] = "idle"]
        /\ last' = [op |-> "ensure_found", caller |-> c]
    /\ UNCHANGED <<inventory, gameVars, reservation, building, save_file, graph_cache>>

\* thread = threading.Thread(...); thread.start()
EnsureStart ==
    /\ \E c \in Callers :
        /\ threads.pc[c] = "locked"
        /\ ~loop_running(threads)
        /\ threads.started < MaxLoopThreads
        /\ threads' = [threads EXCEPT !.started = @ + 1,
                                      !.alive = @ \cup {threads.started + 1},
                                      !.pc[c] = "started"]
        /\ last' = [op |-> "ensure_start", caller |-> c]
    /\ UNCHANGED <<inventory, gameVars, reservation, building, save_file, graph_cache>>

\* _loop_thread = thread, and the lock released on leaving the with block
EnsureAssign ==
    /\ \E c \in Callers :
        /\ threads.pc[c] = "started"
        /\ threads' = [threads EXCEPT !.loop_thread = threads.started,
                                      !.loop_lock = "none", !.pc[c] = "idle"]
        /\ last' = [op |-> "ensure_assign", caller |-> c]
    /\ UNCHANGED <<inventory, gameVars, reservation, building, save_file, graph_cache>>

\* _run_tick_loop: a loop thread enters state.tick(interval)
LoopTickBegin ==
    /\ tick_count < MaxSchedTicks
    /\ \E t \in threads.alive \ threads.ticking :
        /\ threads' = [threads EXCEPT !.ticking = @ \cup {t}]
        /\ last' = [op |-> "loop_tick_begin", thread |-> t]
    /\ UNCHANGED <<inventory, gameVars, reservation, building, save_file, graph_cache>>

\* _run_tick_loop: state.tick(1.0) returns and the thread sleeps
LoopTickFinish ==
    /\ \E t \in threads.ticking :
        /\ \E g \in {game_tick(Game, 1)} : SetGame(g)
        /\ threads' = [threads EXCEPT !.ticking = @ \ {t}]
        /\ last' = [op |-> "loop_tick_finish", thread |-> t]
    /\ UNCHANGED <<reservation, building, save_file, graph_cache>>

\* a loop thread ends: something that is not an Exception leaves the loop
LoopEnds ==
    /\ \E t \in threads.alive :
        /\ threads' = [threads EXCEPT !.alive = @ \ {t}, !.ticking = @ \ {t}]
        /\ last' = [op |-> "loop_ends", thread |-> t]
    /\ UNCHANGED <<inventory, gameVars, reservation, building, save_file, graph_cache>>

SchedNext ==
    \/ EnsureAcquire
    \/ EnsureFound
    \/ EnsureStart
    \/ EnsureAssign
    \/ LoopTickBegin
    \/ LoopTickFinish
    \/ LoopEnds

SpecSched == SchedInit /\ [][SchedNext]_vars

\* C36: however many times and from however many threads ensure_tick_loop
\* is called, at most one tick-loop thread is alive at any time, and so at
\* most one thread of the scheduler is inside GameState.tick.
SingleTickDriver ==
    /\ Cardinality(threads.alive) <= 1
    /\ Cardinality(threads.ticking) <= 1
    /\ threads.ticking \subseteq threads.alive

\* a second caller found the loop thread alive, in the middle of a tick, and
\* started nothing
SecondCallerWitness ==
    /\ last.op = "ensure_found"
    /\ threads.started = 1
    /\ threads.alive = {1}
    /\ threads.ticking = {1}
    /\ \E c \in Callers : c # last.caller /\ threads.pc[c] = "idle"

\* a caller replaced a loop thread that had ended
LoopRestartedWitness ==
    /\ last.op = "ensure_assign"
    /\ threads.started = 2
    /\ threads.alive = {2}
    /\ threads.loop_thread = 2


\* ------------------------------------------------------------------------
\* The range of cycle_progress (SpecModes)

\* C37: after every tick of a discrete building 0 <= cycle_progress <=
\* cycle_time, with cycle_progress < cycle_time when the tick reported
\* produced (and when it found no cycle due) and cycle_progress <=
\* cycle_time after a stall; after every tick of a continuous building,
\* whatever its outcome, cycle_progress = 0.
ProgressInRange ==
    /\ building.type_key = LUMBER_HUT =>
          /\ building.cycle_progress >= 0
          /\ building.cycle_progress <= cycle_time_sec(building)
    /\ (TickedIn(LUMBER_HUT) /\ last.ret.status = "produced") =>
          building.cycle_progress < cycle_time_sec(building)
    /\ (TickedIn(LUMBER_HUT) /\ last.ret.status = "inactive") =>
          building.cycle_progress < cycle_time_sec(building)
    /\ (TickedIn(LUMBER_HUT) /\ last.ret.status = "stalled") =>
          building.cycle_progress = Min(ProgressAfter, cycle_time_sec(building))
    /\ building.type_key = WOODCUTTER_CAMP => building.cycle_progress = 0

\* a stalled tick that was due for more than a cycle and kept one cycle's
\* worth of progress
ProgressClampedWitness ==
    /\ TickedIn(LUMBER_HUT)
    /\ last.ret.status = "stalled"
    /\ ProgressAfter > cycle_time_sec(last.b)
    /\ building.cycle_progress = cycle_time_sec(building)

\* a producing tick of the camp, its cycle_progress at zero
ContinuousProgressWitness ==
    /\ TickedIn(WOODCUTTER_CAMP)
    /\ last.ret.status = "produced"
    /\ building.cycle_progress = 0


\* ------------------------------------------------------------------------
\* Buildings with nothing built (SpecOps)

\* C38: in every state reached through build, demolish, toggle and worker
\* delta, a building with built = 0 is disabled and has no assigned worker.
\* toggle_building sets enabled to what it is given whatever the built
\* count: a tent built, demolished and toggled on is enabled with built = 0.
UnbuiltIsDisabled ==
    \A id \in DOMAIN buildings :
        built_count(buildings[id]) = 0 =>
            /\ ~buildings[id].enabled
            /\ buildings[id].assigned_workers = 0


\* a building with nothing built never has a worker: demolish_building cuts
\* the workers back and apply_worker_delta finds no free slot
UnbuiltHasNoWorkers ==
    \A id \in DOMAIN buildings :
        built_count(buildings[id]) = 0 => buildings[id].assigned_workers = 0

\* ------------------------------------------------------------------------
\* The ledger through construction and demolition (SpecOps)

\* C39: a build debits its cost and a demolition refunds at most the cost
\* that was paid, so building a type and then demolishing it leaves no
\* resource higher than before the build, and no sequence of builds and
\* demolitions brings any resource above what the game started with.
RefundWithinCost ==
    /\ \A r \in Res : get_amount(inventory, r) <= Get(STARTING_RESOURCES, r)
    /\ (last.op = "ops_build" /\ last.error = "none") =>
          \A r \in Res :
              get_amount(inventory, r)
                  = get_amount(last.pre.inv, r) - Get(BUILD_COSTS[last.id], r)
    /\ (last.op = "ops_demolish" /\ last.error = "none") =>
          \A r \in Res :
              /\ get_amount(inventory, r) >= get_amount(last.pre.inv, r)
              /\ get_amount(inventory, r) - get_amount(last.pre.inv, r)
                    <= Get(BUILD_COSTS[last.id], r)
              /\ last.id = WOODCUTTER_CAMP =>
                    get_amount(inventory, r) = get_amount(last.pre.inv, r)

\* a tent built and demolished: some gold came back, less than was paid
RefundedWitness ==
    /\ last.op = "ops_demolish"
    /\ last.error = "none"
    /\ last.id = STICK_GATHERING_TENT
    /\ get_amount(inventory, "GOLD") > get_amount(last.pre.inv, "GOLD")
    /\ get_amount(inventory, "GOLD") < STARTING_RESOURCES["GOLD"]
    /\ built_count(buildings[STICK_GATHERING_TENT]) = 0


\* ------------------------------------------------------------------------
\* The production graph and its cache (core/production_tree.py, SpecGraph):
\* the operations of SpecOrder and build_production_graph between them

\* generate_graph_from_snapshots: of the payload, the stock of every
\* resource node, the workers and last report of every building node, and
\* the version in meta
generate_graph_from_snapshots(building_snapshots, inventory_snap, version) ==
    [stock |-> [r \in DOMAIN inventory_snap |-> inventory_snap[r].amount],
     workers |-> [id \in DOMAIN building_snapshots |->
                     building_snapshots[id].workers],
     last_report |-> [id \in DOMAIN building_snapshots |->
                         building_snapshots[id].last_report],
     version |-> version]

\* build_production_graph(state) over the cache entry of only_discovered =
\* True: the payload stored for the state's version, or a new one stored
build_production_graph(g, cache) ==
    LET stored(graph) ==
          [cache |-> [version |-> g.version, payload |-> graph],
           ret |-> graph, hit |-> FALSE]
    IN IF cache.version = g.version
       THEN [cache |-> cache, ret |-> cache.payload, hit |-> TRUE]
       ELSE stored(generate_graph_from_snapshots(
                       snapshot_buildings(g).ret, inventory_snapshot(g).ret,
                       g.version))

\* production_tree.build_production_graph(get_game_state())
GraphBuild ==
    /\ \E out \in {build_production_graph(Game, graph_cache)} :
          /\ graph_cache' = out.cache
          /\ last' = [op |-> "build_production_graph", ret |-> out.ret,
                      hit |-> out.hit]
    /\ UNCHANGED <<inventory, gameVars, reservation, building, threads, save_file>>

GraphNext ==
    \/ OrderBuild
    \/ OrderWorkerDelta
    \/ OrderSetMode
    \/ OrderSetRate
    \/ OrderTick
    \/ GraphBuild

SpecGraph == Init /\ [][GraphNext]_vars

\* C40: build_production_graph never serves a stale graph: the stocks and
\* the building reports of the payload it returns are those of the state it
\* was called on. GameState.tick raises the version only when the wood
\* state changes, so a tick that stalls the hut on missing wood changes its
\* report under the same version and the cached payload is served again.
GraphNeverStale ==
    last.op = "build_production_graph" =>
        /\ last.ret.version = state_version
        /\ \A r \in Res : last.ret.stock[r] = get_amount(inventory, r)
        /\ DOMAIN last.ret.last_report = DOMAIN buildings
        /\ \A id \in DOMAIN buildings :
              last.ret.last_report[id] = building_last_report(Game, id)

\* with WOOD the only resource traded, every change of a stock comes with a
\* change of the wood state and so of the version: the stocks served are
\* those of the state
GraphStockFresh ==
    last.op = "build_production_graph" =>
        \A r \in Res : last.ret.stock[r] = get_amount(inventory, r)


\* the cached graph served with the hut still inactive after the tick that
\* stalled it
StaleReportServed ==
    /\ last.op = "build_production_graph"
    /\ last.hit
    /\ LUMBER_HUT \in DOMAIN last.ret.last_report
    /\ last.ret.last_report[LUMBER_HUT].status = "inactive"
    /\ building_last_report(Game, LUMBER_HUT).status = "stalled"

====
